---- MODULE Spec2Model ----
(***************************************************************************)
(* A model of src/core/log_listener.py: the LogListener singleton, the     *)
(* capturing handler it attaches to watched loggers, its callback          *)
(* registries and the dispatch of captured records, together with the      *)
(* part of the logging backend (handler lists, propagate flags, the walk   *)
(* over a logger and its ancestors) that the listener acts on.             *)
(*                                                                         *)
(* Strings that the code inspects (keywords, messages) are sequences of    *)
(* one-character strings, so that str.lower() and re.search() are          *)
(* computed and not assumed.                                               *)
(***************************************************************************)
EXTENDS Integers, Sequences, FiniteSets, TLC

\* ------------------------------------------------------------------ bounds

\* At most MaxReg callback registrations are held by the three registries
\* together (on_level / on_keyword / on_any are not offered beyond it).
MaxReg == 3

\* ------------------------------------------------------- program constants

DEBUG == 10
INFO == 20
ERROR == 40

\* The LogLevel members that on_level is called with.
LogLevel == {INFO, ERROR}

\* The numeric levels of emitted records: a custom level below DEBUG, and two
\* LogLevel members.
RecordLevels == {5, INFO, ERROR}

\* ------------------------------------------------------------ the universe

\* Two loggers of one hierarchy: "svc.error" is the child of "svc".
Loggers == {"svc", "svc.error"}

\* logging's parent link; "" stands for "no modelled ancestor".
Parent(name) ==
    IF name = "svc.error" THEN "svc" ELSE ""

\* The handlers that are on the loggers before the listener touches them.
OriginalSinks == {1, 2, 3}

\* Identities for CallbackHandler objects (one is allocated per attach).
CallbackHandlerIds == 11..16

IsCallbackHandler(h) ==
    h \in CallbackHandlerIds

\* Handler.level: handler.setLevel(logging.DEBUG) for a CallbackHandler; the
\* other sinks keep the level a new Handler has (NOTSET, 0).
HandlerLevel(h) ==
    IF IsCallbackHandler(h) THEN DEBUG ELSE 0

\* User callbacks.  "A" raises an Exception each time it is called.
Callbacks == {"G", "A", "B"}

Raising == {"A"}

\* Keywords: "err" and the invalid regular expression "(".
KwErr == <<"e", "r", "r">>

KwBad == <<"(">>

Keywords == {KwErr, KwBad}

\* Messages: "an error occurred" and "ok".
MsgError ==
    <<"a", "n", " ", "e", "r", "r", "o", "r", " ",
      "o", "c", "c", "u", "r", "r", "e", "d">>

MsgOk == <<"o", "k">>

Messages == {MsgError, MsgOk}

Threads == {"t1", "t2"}

NoOwner == "free"

\* --------------------------------------------------------------- helpers

Range(s) ==
    {s[i] : i \in DOMAIN s}

EmptyMap ==
    [x \in {} |-> 0]

Put(f, k, v) ==
    [x \in (DOMAIN f) \cup {k} |-> IF x = k THEN v ELSE f[x]]

Del(f, k) ==
    [x \in (DOMAIN f) \ {k} |-> f[x]]

\* dict.get(k, default)
Get(f, k, default) ==
    IF k \in DOMAIN f THEN f[k] ELSE default

\* str.lower() on the characters of the model's alphabet.
LowerChar(c) ==
    CASE c = "E" -> "e"
      [] c = "R" -> "r"
      [] OTHER -> c

Lower(s) ==
    [i \in DOMAIN s |-> LowerChar(s[i])]

\* re.search raises re.error for a pattern that does not compile; over the
\* model's alphabet that is a pattern with an unclosed "(".
ReError(pattern) ==
    \E i \in DOMAIN pattern : pattern[i] = "("

\* re.search(pattern, message) for a pattern of literal characters: the
\* pattern occurs somewhere in the message.
ReSearch(pattern, message) ==
    \E k \in 0..(Len(message) - Len(pattern)) :
        \A i \in 1..Len(pattern) : message[k + i] = pattern[i]

\* ---------------------------------------------------- the logging backend

\* Logger.addHandler: append unless already present.
AddHandler(hs, h) ==
    IF h \in Range(hs) THEN hs ELSE Append(hs, h)

\* Logger.removeHandler: list.remove of the first occurrence, if present.
RemoveHandler(hs, h) ==
    IF h \in Range(hs)
    THEN LET i == CHOOSE j \in DOMAIN hs : hs[j] = h /\ \A k \in 1..(j - 1) : hs[k] # h
         IN  SubSeq(hs, 1, i - 1) \o SubSeq(hs, i + 1, Len(hs))
    ELSE hs

RECURSIVE RemoveAll(_, _)
RemoveAll(hs, rm) ==
    IF rm = <<>> THEN hs ELSE RemoveAll(RemoveHandler(hs, Head(rm)), Tail(rm))

RECURSIVE AddAll(_, _)
AddAll(hs, add) ==
    IF add = <<>> THEN hs ELSE AddAll(AddHandler(hs, Head(add)), Tail(add))

\* Logger.callHandlers: the handlers that are handed a record of this level
\* logged on `name`: the logger's own handlers whose level admits the record,
\* then, while propagate is set, those of its ancestors.
RECURSIVE CallHandlers(_, _, _, _)
CallHandlers(lh, lp, name, level) ==
    LET here == SelectSeq(lh[name], LAMBDA h : level >= HandlerLevel(h))
    IN  IF lp[name] /\ Parent(name) # ""
        THEN here \o CallHandlers(lh, lp, Parent(name), level)
        ELSE here

\* ------------------------------------------------------------------ state

VARIABLES
    \* the logging backend: Logger.handlers and Logger.propagate per logger
    logger_handlers, logger_propagate,
    \* LogListener fields
    _watched_loggers, _handlers, _intercept_settings,
    _original_handlers, _original_propagate, _running,
    _level_callbacks, _keyword_callbacks, _global_callbacks, _callback_lock,
    \* LogListener class attributes and the per-object _initialized attribute
    _instance, _lock, _initialized,
    \* per thread: position in the code and locals
    pc, record, todo, current, idx, kidx, self, result,
    \* per thread, about the record it logged last: the callbacks called by the
    \* dispatch in progress or finished last, the sinks that received the
    \* record, the exception that left the log call, the number of dispatches
    calls, received, raised, ndispatch,
    \* history: the last two of the calls start / stop / other (watch or
    \* unwatch); the loggers as they were when start() attached, kept until the
    \* watch set changes; the threads in the order in which their dispatches in
    \* progress called callbacks; the number of objects created and of __init__
    \* bodies entered
    hist, snap, order, created, init_runs

backend == <<logger_handlers, logger_propagate>>

attach_state ==
    <<_watched_loggers, _handlers, _intercept_settings,
      _original_handlers, _original_propagate, _running>>

registries == <<_level_callbacks, _keyword_callbacks, _global_callbacks>>

class_state == <<_instance, _lock, _initialized, created, init_runs>>

thread_state ==
    <<pc, record, todo, current, idx, kidx, self, result,
      calls, received, raised, ndispatch, order>>

vars ==
    <<backend, attach_state, registries, _callback_lock, class_state,
      thread_state, hist, snap>>

\* No call of the listener or of a logger is in progress.
AllIdle ==
    \A t \in Threads : pc[t] = "idle"

\* ------------------------------------------------- attach and detach

\* The part of the state _attach_handler and _detach_handler work on.
AttachState ==
    [lh |-> logger_handlers, lp |-> logger_propagate, hd |-> _handlers,
     oh |-> _original_handlers, op |-> _original_propagate]

\* CallbackHandler(self): a new object, distinct from every handler that is
\* on a logger or that the listener still refers to.
NewCallbackHandler(S) ==
    LET used == UNION {Range(S.lh[n]) : n \in Loggers}
                \cup Range(S.hd)
                \cup UNION {Range(S.oh[n]) : n \in DOMAIN S.oh}
    IN  CHOOSE h \in CallbackHandlerIds :
            h \notin used /\ \A g \in CallbackHandlerIds : g < h => g \in used

\* An attach that never looks at the intercept setting.
InterceptIgnored(settings, name) ==
    FALSE

\* self._intercept_settings.get(logger_name, False)
InterceptEnabled(settings, name) ==
    Get(settings, name, FALSE)

\* A detach that adds the saved handlers back last one first.
RestoreHandlersReversed(hs, saved) ==
    AddAll(hs, [i \in DOMAIN saved |-> saved[Len(saved) + 1 - i]])

\* for h in self._original_handlers[logger_name]: logger.addHandler(h)
RestoreHandlers(hs, saved) ==
    AddAll(hs, saved)

\* A detach that leaves the propagate flag as interception set it.
RestorePropagateSkipped(now, saved) ==
    now

\* logger.propagate = self._original_propagate[logger_name]
RestorePropagate(now, saved) ==
    saved

_attach_handler(S, settings, name) ==
    LET handler == NewCallbackHandler(S)
        icpt == InterceptEnabled(settings, name)
        saved == S.lh[name]
        kept == IF icpt THEN RemoveAll(S.lh[name], saved) ELSE S.lh[name]
    IN  [lh |-> [S.lh EXCEPT ![name] = AddHandler(kept, handler)],
         lp |-> [S.lp EXCEPT ![name] = IF icpt THEN FALSE ELSE @],
         hd |-> Put(S.hd, name, handler),
         oh |-> IF icpt THEN Put(S.oh, name, saved) ELSE S.oh,
         op |-> IF icpt THEN Put(S.op, name, S.lp[name]) ELSE S.op]

\* A detach that treats every logger as a shadow: it takes the
\* CallbackHandler off and drops what was saved without putting it back.
_detach_handler_shadow(S, name) ==
    IF name \notin DOMAIN S.hd
    THEN S
    ELSE [lh |-> [S.lh EXCEPT ![name] = RemoveHandler(@, S.hd[name])],
          lp |-> S.lp,
          hd |-> Del(S.hd, name),
          oh |-> Del(S.oh, name),
          op |-> Del(S.op, name)]

_detach_handler(S, name) ==
    IF name \notin DOMAIN S.hd
    THEN S
    ELSE LET removed == RemoveHandler(S.lh[name], S.hd[name])
         IN  [lh |-> [S.lh EXCEPT ![name] =
                        IF name \in DOMAIN S.oh
                        THEN RestoreHandlers(removed, S.oh[name])
                        ELSE removed],
              lp |-> IF name \in DOMAIN S.op
                     THEN [S.lp EXCEPT ![name] = RestorePropagate(@, S.op[name])]
                     ELSE S.lp,
              hd |-> Del(S.hd, name),
              oh |-> Del(S.oh, name),
              op |-> Del(S.op, name)]

\* start()'s loop: attach every watched logger that has no handler yet.
RECURSIVE AttachAll(_, _, _)
AttachAll(S, settings, names) ==
    IF names = {}
    THEN S
    ELSE LET n == CHOOSE x \in names : TRUE
             S1 == IF n \notin DOMAIN S.hd THEN _attach_handler(S, settings, n) ELSE S
         IN  AttachAll(S1, settings, names \ {n})

\* stop()'s loop: detach every logger that has a handler.
RECURSIVE DetachAll(_, _)
DetachAll(S, names) ==
    IF names = {}
    THEN S
    ELSE LET n == CHOOSE x \in names : TRUE
         IN  DetachAll(_detach_handler(S, n), names \ {n})

\* Writes an AttachState back to the variables.
Store(S) ==
    /\ logger_handlers' = S.lh
    /\ logger_propagate' = S.lp
    /\ _handlers' = S.hd
    /\ _original_handlers' = S.oh
    /\ _original_propagate' = S.op

\* --------------------------------------------------- watch configuration

\* The value of `snap` when no start() attached since the watch set changed.
NoSnap ==
    [valid |-> FALSE, lh |-> EmptyMap, lp |-> EmptyMap,
     intercepted |-> {}, shadowed |-> {}]

watch(logger_name, intercept) ==
    /\ _watched_loggers' = _watched_loggers \cup {logger_name}
    /\ _intercept_settings' = Put(_intercept_settings, logger_name, intercept)
    /\ IF _running /\ logger_name \notin DOMAIN _handlers
       THEN Store(_attach_handler(AttachState, _intercept_settings', logger_name))
       ELSE UNCHANGED <<backend, _handlers, _original_handlers, _original_propagate>>
    /\ hist' = <<hist[2], "other">>
    /\ snap' = NoSnap
    /\ UNCHANGED <<_running, registries, _callback_lock, class_state, thread_state>>

\* An unwatch that only forgets the name and leaves its handler attached.
unwatch_lazy(logger_name) ==
    /\ _watched_loggers' = _watched_loggers \ {logger_name}
    /\ UNCHANGED <<backend, _handlers, _original_handlers, _original_propagate>>
    /\ _intercept_settings' = Del(_intercept_settings, logger_name)
    /\ hist' = <<hist[2], "other">>
    /\ snap' = NoSnap
    /\ UNCHANGED <<_running, registries, _callback_lock, class_state, thread_state>>

unwatch(logger_name) ==
    /\ _watched_loggers' = _watched_loggers \ {logger_name}
    /\ IF logger_name \in DOMAIN _handlers
       THEN Store(_detach_handler(AttachState, logger_name))
       ELSE UNCHANGED <<backend, _handlers, _original_handlers, _original_propagate>>
    /\ _intercept_settings' = Del(_intercept_settings, logger_name)
    /\ hist' = <<hist[2], "other">>
    /\ snap' = NoSnap
    /\ UNCHANGED <<_running, registries, _callback_lock, class_state, thread_state>>

\* ------------------------------------------------------------- lifecycle

\* if self._running: return self
StartReturnsEarly ==
    _running

\* if not self._running: return self
StopReturnsEarly ==
    ~_running

\* A start() without its two guards: it attaches a new handler to every
\* watched logger on every call.
RECURSIVE AttachEvery(_, _, _)
AttachEvery(S, settings, names) ==
    IF names = {}
    THEN S
    ELSE LET n == CHOOSE x \in names : TRUE
         IN  AttachEvery(_attach_handler(S, settings, n), settings, names \ {n})

start_unguarded ==
    /\ Store(AttachEvery(AttachState, _intercept_settings, _watched_loggers))
    /\ _running' = TRUE
    /\ hist' = <<hist[2], "start">>
    /\ UNCHANGED <<_watched_loggers, _intercept_settings, registries, _callback_lock,
                   class_state, thread_state, snap>>

start ==
    /\ IF StartReturnsEarly
       THEN UNCHANGED <<backend, _handlers, _original_handlers, _original_propagate,
                        _running, snap>>
       ELSE /\ Store(AttachAll(AttachState, _intercept_settings, _watched_loggers))
            /\ _running' = TRUE
            /\ snap' = [valid |-> TRUE,
                        lh |-> logger_handlers, lp |-> logger_propagate,
                        intercepted |-> {n \in _watched_loggers :
                                            InterceptEnabled(_intercept_settings, n)},
                        shadowed |-> {n \in _watched_loggers :
                                            ~InterceptEnabled(_intercept_settings, n)}]
    /\ hist' = <<hist[2], "start">>
    /\ UNCHANGED <<_watched_loggers, _intercept_settings, registries, _callback_lock,
                   class_state, thread_state>>

\* A stop() that only resets the flag and detaches nothing.
stop_flag_only ==
    /\ IF StopReturnsEarly
       THEN UNCHANGED _running
       ELSE _running' = FALSE
    /\ UNCHANGED <<backend, _handlers, _original_handlers, _original_propagate>>
    /\ hist' = <<hist[2], "stop">>
    /\ UNCHANGED <<_watched_loggers, _intercept_settings, registries, _callback_lock,
                   class_state, thread_state, snap>>

stop ==
    /\ IF StopReturnsEarly
       THEN UNCHANGED <<backend, _handlers, _original_handlers, _original_propagate,
                        _running>>
       ELSE LET S == DetachAll(AttachState, DOMAIN _handlers)
            IN  /\ Store([S EXCEPT !.hd = EmptyMap])
                /\ _running' = FALSE
    /\ hist' = <<hist[2], "stop">>
    /\ UNCHANGED <<_watched_loggers, _intercept_settings, registries, _callback_lock,
                   class_state, thread_state, snap>>

\* ------------------------------------------------- logging a record

\* Where a thread continues after a handler returned: with the next handler
\* of the walk, or at the return of the log call.
AfterHandler(rest) ==
    IF rest = <<>> THEN "done" ELSE "callHandlers"

\* The value of a thread's `record` while it logs nothing.
NoRecord ==
    [name |-> "", level |-> 0, message |-> <<>>]

\* The thread is inside CallbackHandler.emit (and holds that handler's lock).
InEmit(t) ==
    pc[t] \in {"dispatch", "global", "level", "keyword", "release"}

\* target_logger.log(level, message) on a logger that lets the level through:
\* Logger.handle starts the walk over the handlers.
Log(t, name, level, message) ==
    /\ pc[t] = "idle"
    /\ LET hs == CallHandlers(logger_handlers, logger_propagate, name, level)
       IN  /\ todo' = [todo EXCEPT ![t] = hs]
           /\ pc' = [pc EXCEPT ![t] = AfterHandler(hs)]
    /\ record' = [record EXCEPT ![t] =
                    [name |-> name, level |-> level, message |-> message]]
    /\ UNCHANGED <<backend, attach_state, registries, _callback_lock, class_state,
                   current, idx, kidx, self, result, calls, received, raised,
                   ndispatch, order, hist, snap>>

\* The log call returns to its caller (or the exception reaches it); the
\* thread forgets the record.
Return(t) ==
    /\ pc[t] = "done"
    /\ pc' = [pc EXCEPT ![t] = "idle"]
    /\ record' = [record EXCEPT ![t] = NoRecord]
    /\ current' = [current EXCEPT ![t] = 0]
    /\ idx' = [idx EXCEPT ![t] = 1]
    /\ kidx' = [kidx EXCEPT ![t] = 1]
    /\ calls' = [calls EXCEPT ![t] = <<>>]
    /\ received' = [received EXCEPT ![t] = <<>>]
    /\ raised' = [raised EXCEPT ![t] = "none"]
    /\ ndispatch' = [ndispatch EXCEPT ![t] = 0]
    /\ order' = SelectSeq(order, LAMBDA u : u # t)
    /\ UNCHANGED <<backend, attach_state, registries, _callback_lock, class_state,
                   todo, self, result, hist, snap>>

\* The handlers at the front of a walk that are not CallbackHandlers.
RECURSIVE PlainPrefix(_)
PlainPrefix(hs) ==
    IF hs = <<>> \/ IsCallbackHandler(Head(hs))
    THEN <<>>
    ELSE <<Head(hs)>> \o PlainPrefix(Tail(hs))

\* Handler.handle of the next handlers of the walk.  The sinks that are not
\* the listener's write the record out (one step for a run of them); a
\* CallbackHandler is entered under its own lock (Handler.acquire) and runs
\* emit, which calls _dispatch_callbacks.
Handle(t) ==
    /\ pc[t] = "callHandlers"
    /\ LET h == Head(todo[t])
           plain == PlainPrefix(todo[t])
           rest == SubSeq(todo[t], Len(plain) + 1, Len(todo[t]))
       IN  IF IsCallbackHandler(h)
           THEN /\ \A u \in Threads \ {t} : ~(InEmit(u) /\ current[u] = h)
                /\ current' = [current EXCEPT ![t] = h]
                /\ pc' = [pc EXCEPT ![t] = "dispatch"]
                /\ todo' = [todo EXCEPT ![t] = Tail(todo[t])]
                /\ UNCHANGED received
           ELSE /\ received' = [received EXCEPT ![t] = @ \o plain]
                /\ pc' = [pc EXCEPT ![t] = AfterHandler(rest)]
                /\ todo' = [todo EXCEPT ![t] = rest]
                /\ UNCHANGED current
    /\ UNCHANGED <<backend, attach_state, registries, _callback_lock, class_state,
                   record, idx, kidx, self, result, calls, raised, ndispatch,
                   order, hist, snap>>

\* ---------------------------------------------------------------- dispatch

\* A lock that everybody gets at once.
CanAcquireAlways(lock, t) ==
    TRUE

\* threading.Lock.acquire: the lock can be taken when nobody holds it.
CanAcquire(lock, t) ==
    lock = NoOwner

\* The order of the three loops of _dispatch_callbacks.
FirstPhase ==
    "global"

PhaseAfter(phase) ==
    CASE phase = "global" -> "level"
      [] phase = "level" -> "keyword"
      [] phase = "keyword" -> "release"

\* _safe_call: the exception that leaves it.  `except Exception: pass`
\* discards whatever the callback raises.
_safe_call(callback) ==
    "none"

\* Where _dispatch_callbacks stands when it is about to look at entry `i` of
\* the loop `phase` (of key `k` in the keyword loop) for a record of `level`:
\* at that entry if the loop has one, otherwise in the loop that follows, and
\* at "release" behind the last loop.
RECURSIVE Position(_, _, _, _)
Position(level, phase, k, i) ==
    CASE phase = "global" ->
            IF i <= Len(_global_callbacks)
            THEN [pc |-> "global", kidx |-> 1, idx |-> i]
            ELSE Position(level, PhaseAfter("global"), 1, 1)
      [] phase = "level" ->
            IF level \in DOMAIN _level_callbacks /\ i <= Len(_level_callbacks[level])
            THEN [pc |-> "level", kidx |-> 1, idx |-> i]
            ELSE Position(level, PhaseAfter("level"), 1, 1)
      [] phase = "keyword" ->
            IF k > Len(_keyword_callbacks)
            THEN Position(level, PhaseAfter("keyword"), 1, 1)
            ELSE IF i > Len(_keyword_callbacks[k].callbacks)
                 THEN Position(level, "keyword", k + 1, 1)
                 ELSE [pc |-> "keyword", kidx |-> k, idx |-> i]
      [] OTHER -> [pc |-> "release", kidx |-> 1, idx |-> 1]

\* with self._callback_lock:
DispatchAcquire(t) ==
    /\ pc[t] = "dispatch"
    /\ CanAcquire(_callback_lock, t)
    /\ _callback_lock' = t
    /\ LET p == Position(record[t].level, FirstPhase, 1, 1)
       IN  /\ pc' = [pc EXCEPT ![t] = p.pc]
           /\ idx' = [idx EXCEPT ![t] = p.idx]
           /\ kidx' = [kidx EXCEPT ![t] = p.kidx]
    /\ calls' = [calls EXCEPT ![t] = <<>>]
    /\ ndispatch' = [ndispatch EXCEPT ![t] = @ + 1]
    /\ UNCHANGED <<backend, attach_state, registries, class_state, record, todo,
                   current, self, result, received, raised, order, hist, snap>>

\* One pass through a loop body of _dispatch_callbacks: `called` holds the
\* callback it called, if any, and `exc` is the exception that leaves the
\* body.  An exception leaves the with block, which releases the lock, then
\* emit, the walk of the handlers and the log call; otherwise the thread goes
\* on with the entry that follows.
DispatchStep(t, called, exc) ==
    /\ calls' = [calls EXCEPT ![t] = @ \o called]
    /\ order' = IF called = <<>> \/ (order # <<>> /\ order[Len(order)] = t)
                THEN order
                ELSE Append(order, t)
    /\ IF exc # "none"
       THEN /\ raised' = [raised EXCEPT ![t] = exc]
            /\ pc' = [pc EXCEPT ![t] = "done"]
            /\ todo' = [todo EXCEPT ![t] = <<>>]
            /\ _callback_lock' = NoOwner
            /\ UNCHANGED <<idx, kidx>>
       ELSE /\ LET p == Position(record[t].level, pc[t], kidx[t], idx[t] + 1)
               IN  /\ pc' = [pc EXCEPT ![t] = p.pc]
                   /\ idx' = [idx EXCEPT ![t] = p.idx]
                   /\ kidx' = [kidx EXCEPT ![t] = p.kidx]
            /\ UNCHANGED <<raised, todo, _callback_lock>>
    /\ UNCHANGED <<backend, attach_state, registries, class_state, record,
                   current, self, result, received, ndispatch, hist, snap>>

\* for callback in self._global_callbacks: self._safe_call(callback, record)
DispatchGlobal(t) ==
    /\ pc[t] = "global"
    /\ LET callback == _global_callbacks[idx[t]]
       IN  DispatchStep(t, <<callback>>, _safe_call(callback))

\* if record.level in self._level_callbacks:
\*     for callback in self._level_callbacks[record.level]: self._safe_call(...)
DispatchLevel(t) ==
    /\ pc[t] = "level"
    /\ LET callback == _level_callbacks[record[t].level][idx[t]]
       IN  DispatchStep(t, <<callback>>, _safe_call(callback))

\* for keyword, callbacks in self._keyword_callbacks.items():
\*     for callback, case_sensitive in callbacks:
\*         message = record.message if case_sensitive else record.message.lower()
\*         pattern = keyword if case_sensitive else keyword.lower()
\*         if re.search(pattern, message): self._safe_call(callback, record)
DispatchKeyword(t) ==
    /\ pc[t] = "keyword"
    /\ LET entry == _keyword_callbacks[kidx[t]]
           callback == entry.callbacks[idx[t]][1]
           case_sensitive == entry.callbacks[idx[t]][2]
           message == IF case_sensitive
                      THEN record[t].message
                      ELSE Lower(record[t].message)
           pattern == IF case_sensitive THEN entry.keyword ELSE Lower(entry.keyword)
       IN  IF ReError(pattern)
           THEN DispatchStep(t, <<>>, "re.error")
           ELSE IF ReSearch(pattern, message)
                THEN DispatchStep(t, <<callback>>, _safe_call(callback))
                ELSE DispatchStep(t, <<>>, "none")

\* The end of the with block: the lock is released, emit returns and the walk
\* of the handlers goes on.
DispatchRelease(t) ==
    /\ pc[t] = "release"
    /\ _callback_lock' = NoOwner
    /\ pc' = [pc EXCEPT ![t] = AfterHandler(todo[t])]
    /\ UNCHANGED <<backend, attach_state, registries, class_state, record, todo,
                   current, idx, kidx, self, result, calls, received, raised,
                   ndispatch, order, hist, snap>>

\* ------------------------------------------------- callback registration

RECURSIVE SumLen(_)
SumLen(lists) ==
    IF lists = <<>> THEN 0 ELSE Len(Head(lists)) + SumLen(Tail(lists))

RECURSIVE SumLevels(_)
SumLevels(levels) ==
    IF levels = {}
    THEN 0
    ELSE LET l == CHOOSE x \in levels : TRUE
         IN  Len(_level_callbacks[l]) + SumLevels(levels \ {l})

\* The number of registrations the three registries hold.
RegCount ==
    Len(_global_callbacks) + SumLevels(DOMAIN _level_callbacks)
    + SumLen([i \in DOMAIN _keyword_callbacks |-> _keyword_callbacks[i].callbacks])

\* The position of a keyword in the keyword dict, 0 when it is no key.
KeyIndex(keyword) ==
    IF \E i \in DOMAIN _keyword_callbacks : _keyword_callbacks[i].keyword = keyword
    THEN CHOOSE i \in DOMAIN _keyword_callbacks : _keyword_callbacks[i].keyword = keyword
    ELSE 0

\* What a registration call leaves alone.
RegistrationFrame ==
    UNCHANGED <<backend, attach_state, _callback_lock, class_state, thread_state,
                hist, snap>>

\* An on_level that replaces the callbacks of the level by the new one.
on_level_replace(level, callback) ==
    /\ CanAcquire(_callback_lock, "caller")
    /\ RegCount < MaxReg
    /\ _level_callbacks' = Put(_level_callbacks, level, <<callback>>)
    /\ UNCHANGED <<_keyword_callbacks, _global_callbacks>>
    /\ RegistrationFrame

on_level(level, callback) ==
    /\ CanAcquire(_callback_lock, "caller")
    /\ RegCount < MaxReg
    /\ _level_callbacks' =
           Put(_level_callbacks, level, Append(Get(_level_callbacks, level, <<>>), callback))
    /\ UNCHANGED <<_keyword_callbacks, _global_callbacks>>
    /\ RegistrationFrame

on_keyword(keyword, callback, case_sensitive) ==
    /\ CanAcquire(_callback_lock, "caller")
    /\ RegCount < MaxReg
    /\ LET i == KeyIndex(keyword)
       IN  _keyword_callbacks' =
               IF i = 0
               THEN Append(_keyword_callbacks,
                           [keyword |-> keyword,
                            callbacks |-> <<<<callback, case_sensitive>>>>])
               ELSE [_keyword_callbacks EXCEPT
                        ![i].callbacks = Append(@, <<callback, case_sensitive>>)]
    /\ UNCHANGED <<_level_callbacks, _global_callbacks>>
    /\ RegistrationFrame

\* A registration that also switches the listener on.
on_any_running(callback) ==
    /\ CanAcquire(_callback_lock, "caller")
    /\ RegCount < MaxReg
    /\ _global_callbacks' = Append(_global_callbacks, callback)
    /\ _running' = TRUE
    /\ UNCHANGED <<_level_callbacks, _keyword_callbacks>>
    /\ UNCHANGED <<backend, _watched_loggers, _handlers, _intercept_settings,
                   _original_handlers, _original_propagate, _callback_lock,
                   class_state, thread_state, hist, snap>>

on_any(callback) ==
    /\ CanAcquire(_callback_lock, "caller")
    /\ RegCount < MaxReg
    /\ _global_callbacks' = Append(_global_callbacks, callback)
    /\ UNCHANGED <<_level_callbacks, _keyword_callbacks>>
    /\ RegistrationFrame

\* An off_level that drops the whole list of the level, whatever callback
\* it is given.
off_level_all(level, callback) ==
    /\ CanAcquire(_callback_lock, "caller")
    /\ _level_callbacks' =
           IF level \in DOMAIN _level_callbacks
           THEN [_level_callbacks EXCEPT ![level] = <<>>]
           ELSE _level_callbacks
    /\ UNCHANGED <<_keyword_callbacks, _global_callbacks>>
    /\ RegistrationFrame

\* `callback` is a callback or "None" (the default of the off_ methods).
off_level(level, callback) ==
    /\ CanAcquire(_callback_lock, "caller")
    /\ _level_callbacks' =
           IF level \in DOMAIN _level_callbacks
           THEN IF callback = "None"
                THEN [_level_callbacks EXCEPT ![level] = <<>>]
                ELSE [_level_callbacks EXCEPT
                         ![level] = SelectSeq(@, LAMBDA cb : cb # callback)]
           ELSE _level_callbacks
    /\ UNCHANGED <<_keyword_callbacks, _global_callbacks>>
    /\ RegistrationFrame

\* An off_keyword that, given no callback, empties the whole keyword dict.
off_keyword_everything(keyword, callback) ==
    /\ CanAcquire(_callback_lock, "caller")
    /\ LET i == KeyIndex(keyword)
       IN  _keyword_callbacks' =
               IF i # 0
               THEN IF callback = "None"
                    THEN <<>>
                    ELSE [_keyword_callbacks EXCEPT
                             ![i].callbacks = SelectSeq(@, LAMBDA p : p[1] # callback)]
               ELSE _keyword_callbacks
    /\ UNCHANGED <<_level_callbacks, _global_callbacks>>
    /\ RegistrationFrame

off_keyword(keyword, callback) ==
    /\ CanAcquire(_callback_lock, "caller")
    /\ LET i == KeyIndex(keyword)
       IN  _keyword_callbacks' =
               IF i # 0
               THEN IF callback = "None"
                    THEN [_keyword_callbacks EXCEPT ![i].callbacks = <<>>]
                    ELSE [_keyword_callbacks EXCEPT
                             ![i].callbacks = SelectSeq(@, LAMBDA p : p[1] # callback)]
               ELSE _keyword_callbacks
    /\ UNCHANGED <<_level_callbacks, _global_callbacks>>
    /\ RegistrationFrame

off_any(callback) ==
    /\ CanAcquire(_callback_lock, "caller")
    /\ _global_callbacks' =
           IF callback = "None"
           THEN <<>>
           ELSE SelectSeq(_global_callbacks, LAMBDA cb : cb # callback)
    /\ UNCHANGED <<_level_callbacks, _keyword_callbacks>>
    /\ RegistrationFrame

\* A clear_callbacks that forgets the keyword dict.
clear_callbacks_two ==
    /\ CanAcquire(_callback_lock, "caller")
    /\ _level_callbacks' = EmptyMap
    /\ _keyword_callbacks' = _keyword_callbacks
    /\ _global_callbacks' = <<>>
    /\ RegistrationFrame

clear_callbacks ==
    /\ CanAcquire(_callback_lock, "caller")
    /\ _level_callbacks' = EmptyMap
    /\ _keyword_callbacks' = <<>>
    /\ _global_callbacks' = <<>>
    /\ RegistrationFrame

\* ----------------------------------------------------------- construction

\* LogListener(): __new__ (lines 125-130), then __init__ on the object that
\* __new__ returned (lines 133-153), one statement per step.  Objects are
\* numbered from 1; 0 is None.  An attribute that was never assigned is
\* absent from _initialized, and reading it raises AttributeError.

CtorFrame ==
    UNCHANGED <<backend, record, todo, current, idx, kidx, calls, received,
                ndispatch, order, hist, snap>>

ListenerFields ==
    <<_watched_loggers, _handlers, _intercept_settings, _original_handlers,
      _original_propagate, _running, registries, _callback_lock>>

Goto(t, label) ==
    pc' = [pc EXCEPT ![t] = label]

\* if cls._instance is None:
New125(t) ==
    /\ pc[t] = "new_125"
    /\ Goto(t, IF _instance = 0 THEN "new_126" ELSE "new_130")
    /\ UNCHANGED <<class_state, ListenerFields, self, result, raised>>
    /\ CtorFrame

\* with cls._lock:
New126(t) ==
    /\ pc[t] = "new_126"
    /\ _lock = NoOwner
    /\ _lock' = t
    /\ Goto(t, "new_127")
    /\ UNCHANGED <<_instance, _initialized, created, init_runs, ListenerFields,
                   self, result, raised>>
    /\ CtorFrame

\* if cls._instance is None:  (the second check, under the lock)
New127(t) ==
    /\ pc[t] = "new_127"
    /\ IF _instance = 0
       THEN Goto(t, "new_128") /\ UNCHANGED _lock
       ELSE Goto(t, "new_130") /\ _lock' = NoOwner
    /\ UNCHANGED <<_instance, _initialized, created, init_runs, ListenerFields,
                   self, result, raised>>
    /\ CtorFrame

\* cls._instance = super().__new__(cls)
New128(t) ==
    /\ pc[t] = "new_128"
    /\ created' = created + 1
    /\ _instance' = created + 1
    /\ Goto(t, "new_129")
    /\ UNCHANGED <<_lock, _initialized, init_runs, ListenerFields, self, result, raised>>
    /\ CtorFrame

\* cls._instance._initialized = False; the with block ends
New129(t) ==
    /\ pc[t] = "new_129"
    /\ _initialized' = Put(_initialized, _instance, FALSE)
    /\ _lock' = NoOwner
    /\ Goto(t, "new_130")
    /\ UNCHANGED <<_instance, created, init_runs, ListenerFields, self, result, raised>>
    /\ CtorFrame

\* return cls._instance; type.__call__ then calls __init__ on that object
New130(t) ==
    /\ pc[t] = "new_130"
    /\ self' = [self EXCEPT ![t] = _instance]
    /\ Goto(t, "init_133")
    /\ UNCHANGED <<class_state, ListenerFields, result, raised>>
    /\ CtorFrame

\* if self._initialized: return
Init133(t) ==
    /\ pc[t] = "init_133"
    /\ IF self[t] \notin DOMAIN _initialized
       THEN /\ raised' = [raised EXCEPT ![t] = "AttributeError"]
            /\ Goto(t, "failed")
            /\ UNCHANGED <<result, init_runs>>
       ELSE IF _initialized[self[t]]
            THEN /\ result' = [result EXCEPT ![t] = self[t]]
                 /\ Goto(t, "idle")
                 /\ UNCHANGED <<raised, init_runs>>
            ELSE /\ init_runs' = init_runs + 1
                 /\ Goto(t, "init_136")
                 /\ UNCHANGED <<raised, result>>
    /\ UNCHANGED <<_instance, _lock, _initialized, created, ListenerFields, self>>
    /\ CtorFrame

\* The label that follows a line of the body of __init__.
InitNextLine(label) ==
    CASE label = "init_136" -> "init_137"
      [] label = "init_137" -> "init_140"
      [] label = "init_140" -> "init_141"
      [] label = "init_141" -> "init_142"
      [] label = "init_142" -> "init_145"
      [] label = "init_145" -> "init_146"
      [] label = "init_146" -> "init_147"
      [] label = "init_147" -> "init_150"
      [] label = "init_150" -> "init_151"
      [] label = "init_151" -> "init_153"

\* One assignment of the body of __init__ (lines 136-151): the field of that
\* line gets a fresh empty container, False, or a new unlocked Lock.
InitBody(t) ==
    /\ pc[t] \in {"init_136", "init_137", "init_140", "init_141", "init_142",
                  "init_145", "init_146", "init_147", "init_150", "init_151"}
    /\ _watched_loggers' = IF pc[t] = "init_136" THEN {} ELSE _watched_loggers
    /\ _handlers' = IF pc[t] = "init_137" THEN EmptyMap ELSE _handlers
    /\ _intercept_settings' = IF pc[t] = "init_140" THEN EmptyMap ELSE _intercept_settings
    /\ _original_handlers' = IF pc[t] = "init_141" THEN EmptyMap ELSE _original_handlers
    /\ _original_propagate' = IF pc[t] = "init_142" THEN EmptyMap ELSE _original_propagate
    /\ _level_callbacks' = IF pc[t] = "init_145" THEN EmptyMap ELSE _level_callbacks
    /\ _keyword_callbacks' = IF pc[t] = "init_146" THEN <<>> ELSE _keyword_callbacks
    /\ _global_callbacks' = IF pc[t] = "init_147" THEN <<>> ELSE _global_callbacks
    /\ _running' = IF pc[t] = "init_150" THEN FALSE ELSE _running
    /\ _callback_lock' = IF pc[t] = "init_151" THEN NoOwner ELSE _callback_lock
    /\ Goto(t, InitNextLine(pc[t]))
    /\ UNCHANGED <<class_state, self, result, raised>>
    /\ CtorFrame

\* self._initialized = True; __init__ and the constructor call return
Init153(t) ==
    /\ pc[t] = "init_153"
    /\ _initialized' = Put(_initialized, self[t], TRUE)
    /\ result' = [result EXCEPT ![t] = self[t]]
    /\ Goto(t, "idle")
    /\ UNCHANGED <<_instance, _lock, created, init_runs, ListenerFields, self, raised>>
    /\ CtorFrame

\* A thread holds the listener that its constructor call returned.
HasListener(t) ==
    pc[t] = "idle" /\ result[t] # 0

\* --------------------------------------------------------- initial states

InitLoggers ==
    /\ logger_handlers = [n \in Loggers |-> IF n = "svc" THEN <<1>> ELSE <<2, 3>>]
    /\ logger_propagate \in [Loggers -> BOOLEAN]

InitThreads(label) ==
    /\ pc = [t \in Threads |-> label]
    /\ record = [t \in Threads |-> NoRecord]
    /\ todo = [t \in Threads |-> <<>>]
    /\ current = [t \in Threads |-> 0]
    /\ idx = [t \in Threads |-> 1]
    /\ kidx = [t \in Threads |-> 1]
    /\ self = [t \in Threads |-> 0]
    /\ result = [t \in Threads |-> 0]
    /\ calls = [t \in Threads |-> <<>>]
    /\ received = [t \in Threads |-> <<>>]
    /\ raised = [t \in Threads |-> "none"]
    /\ ndispatch = [t \in Threads |-> 0]
    /\ order = <<>>

\* The fields as __init__ leaves them.
InitFields ==
    /\ _watched_loggers = {}
    /\ _handlers = EmptyMap
    /\ _intercept_settings = EmptyMap
    /\ _original_handlers = EmptyMap
    /\ _original_propagate = EmptyMap
    /\ _level_callbacks = EmptyMap
    /\ _keyword_callbacks = <<>>
    /\ _global_callbacks = <<>>
    /\ _running = FALSE
    /\ _callback_lock = NoOwner

InitHistory ==
    /\ hist = <<"none", "none">>
    /\ snap = NoSnap

\* The class after one complete LogListener() call.
Constructed ==
    /\ _instance = 1
    /\ _lock = NoOwner
    /\ _initialized = [o \in {1} |-> TRUE]
    /\ created = 1
    /\ init_runs = 1

\* ------------------------------------------------------ the constructor
\* Two threads call LogListener() for the first time; a thread whose call
\* returned goes on to use the listener.

InitCtor ==
    /\ InitLoggers
    /\ InitThreads("new_125")
    /\ InitFields
    /\ InitHistory
    /\ _instance = 0
    /\ _lock = NoOwner
    /\ _initialized = EmptyMap
    /\ created = 0
    /\ init_runs = 0

NextCtor ==
    \/ \E t \in Threads : New125(t)
    \/ \E t \in Threads : New126(t)
    \/ \E t \in Threads : New127(t)
    \/ \E t \in Threads : New128(t)
    \/ \E t \in Threads : New129(t)
    \/ \E t \in Threads : New130(t)
    \/ \E t \in Threads : Init133(t)
    \/ \E t \in Threads : InitBody(t)
    \/ \E t \in Threads : Init153(t)
    \/ \E t \in Threads : HasListener(t) /\ watch("svc", FALSE)
    \/ \E t \in Threads : HasListener(t) /\ on_any("G")
    \/ \E t \in Threads : HasListener(t) /\ start

SpecCtor ==
    InitCtor /\ [][NextCtor]_vars

\* ------------------------------------------------ the lifecycle, one caller
\* watch / unwatch / start / stop are called one at a time, and records are
\* logged in between, by one thread.  The registries are those after
\* on_any(G).on_level(LogLevel.ERROR, A).on_keyword("err", B).

InitRegistered ==
    /\ _level_callbacks = [l \in {ERROR} |-> <<"A">>]
    /\ _keyword_callbacks = <<[keyword |-> KwErr, callbacks |-> <<<<"B", FALSE>>>>]>>
    /\ _global_callbacks = <<"G">>

Init ==
    /\ InitLoggers
    /\ InitThreads("idle")
    /\ _watched_loggers = {}
    /\ _handlers = EmptyMap
    /\ _intercept_settings = EmptyMap
    /\ _original_handlers = EmptyMap
    /\ _original_propagate = EmptyMap
    /\ _running = FALSE
    /\ _callback_lock = NoOwner
    /\ InitRegistered
    /\ InitHistory
    /\ Constructed

\* The steps of one thread's log calls on the loggers `names`.
LogCall(t, names) ==
    \/ \E name \in names, level \in RecordLevels, message \in Messages :
           Log(t, name, level, message)
    \/ Handle(t)
    \/ DispatchAcquire(t)
    \/ DispatchGlobal(t)
    \/ DispatchLevel(t)
    \/ DispatchKeyword(t)
    \/ DispatchRelease(t)
    \/ Return(t)

Next ==
    \/ \E name \in Loggers, intercept \in BOOLEAN : AllIdle /\ watch(name, intercept)
    \/ \E name \in Loggers : AllIdle /\ unwatch(name)
    \/ AllIdle /\ start
    \/ AllIdle /\ stop
    \/ LogCall("t1", Loggers)

Spec ==
    Init /\ [][Next]_vars

\* ------------------------------------------- the registries, one caller
\* "svc.error" is watched in shadow mode and the listener is running (the
\* state after watch("svc.error").start()); callbacks are registered and
\* removed one call at a time, and records are logged in between.

InitDispatch ==
    /\ logger_handlers = [n \in Loggers |-> IF n = "svc" THEN <<1>> ELSE <<2, 3, 11>>]
    /\ logger_propagate = [n \in Loggers |-> n = "svc"]
    /\ InitThreads("idle")
    /\ _watched_loggers = {"svc.error"}
    /\ _handlers = [n \in {"svc.error"} |-> 11]
    /\ _intercept_settings = [n \in {"svc.error"} |-> FALSE]
    /\ _original_handlers = EmptyMap
    /\ _original_propagate = EmptyMap
    /\ _running = TRUE
    /\ _callback_lock = NoOwner
    /\ _level_callbacks = EmptyMap
    /\ _keyword_callbacks = <<>>
    /\ _global_callbacks = <<>>
    /\ hist = <<"other", "start">>
    /\ snap = [valid |-> TRUE,
               lh |-> [n \in Loggers |-> IF n = "svc" THEN <<1>> ELSE <<2, 3>>],
               lp |-> logger_propagate, intercepted |-> {}, shadowed |-> {"svc.error"}]
    /\ Constructed

Registration ==
    \/ \E level \in LogLevel, callback \in Callbacks : on_level(level, callback)
    \/ \E callback \in Callbacks, case_sensitive \in BOOLEAN :
           on_keyword(KwErr, callback, case_sensitive)
    \/ \E callback \in Callbacks : on_keyword(KwBad, callback, FALSE)
    \/ \E callback \in Callbacks : on_any(callback)
    \/ \E level \in LogLevel, callback \in Callbacks \cup {"None"} :
           off_level(level, callback)
    \/ \E keyword \in Keywords, callback \in Callbacks \cup {"None"} :
           off_keyword(keyword, callback)
    \/ \E callback \in Callbacks \cup {"None"} : off_any(callback)
    \/ clear_callbacks

NextDispatch ==
    \/ AllIdle /\ Registration
    \/ LogCall("t1", {"svc.error"})

SpecDispatch ==
    InitDispatch /\ [][NextDispatch]_vars

\* --------------------------------------------------- two logging threads
\* Both loggers are watched in shadow mode and the listener is running (the
\* state after watch("svc").watch("svc.error").start()), with the registries
\* of InitRegistered; two threads log records.

InitConcurrent ==
    /\ logger_handlers = [n \in Loggers |-> IF n = "svc" THEN <<1, 11>> ELSE <<2, 3, 12>>]
    /\ logger_propagate = [n \in Loggers |-> TRUE]
    /\ InitThreads("idle")
    /\ _watched_loggers = Loggers
    /\ _handlers = [n \in Loggers |-> IF n = "svc" THEN 11 ELSE 12]
    /\ _intercept_settings = [n \in Loggers |-> FALSE]
    /\ _original_handlers = EmptyMap
    /\ _original_propagate = EmptyMap
    /\ _running = TRUE
    /\ _callback_lock = NoOwner
    /\ InitRegistered
    /\ hist = <<"other", "start">>
    /\ snap = [valid |-> TRUE,
               lh |-> [n \in Loggers |-> IF n = "svc" THEN <<1>> ELSE <<2, 3>>],
               lp |-> logger_propagate, intercepted |-> {}, shadowed |-> Loggers]
    /\ Constructed

NextConcurrent ==
    \E t \in Threads : LogCall(t, Loggers)

SpecConcurrent ==
    InitConcurrent /\ [][NextConcurrent]_vars

\* ------------------------------- the level and global registries in detail
\* As SpecDispatch, with every callback offered to on_level and on_any and
\* one callback to on_keyword, and with records of the LogLevel levels.

\* The steps of a log call of thread t after the call was made.
Walk(t) ==
    \/ Handle(t)
    \/ DispatchAcquire(t)
    \/ DispatchGlobal(t)
    \/ DispatchLevel(t)
    \/ DispatchKeyword(t)
    \/ DispatchRelease(t)
    \/ Return(t)

RegistrationLevel ==
    \/ \E level \in LogLevel, callback \in Callbacks : on_level(level, callback)
    \/ \E callback \in Callbacks : on_any(callback)
    \/ \E keyword \in Keywords : on_keyword(keyword, "B", FALSE)
    \/ \E level \in LogLevel, callback \in Callbacks \cup {"None"} :
           off_level(level, callback)
    \/ \E keyword \in Keywords, callback \in {"B", "None"} :
           off_keyword(keyword, callback)
    \/ \E callback \in Callbacks \cup {"None"} : off_any(callback)
    \/ clear_callbacks

NextLevel ==
    \/ AllIdle /\ RegistrationLevel
    \/ \E level \in LogLevel : Log("t1", "svc.error", level, MsgError)
    \/ Walk("t1")

SpecLevel ==
    InitDispatch /\ [][NextLevel]_vars

\* --------------------------------------- the keyword registry in detail
\* As SpecDispatch, with an upper-case keyword registered with either
\* case_sensitive flag and records whose messages hold the keyword in upper
\* or in lower case.

\* The keyword "ERR".
KwUpper == <<"E", "R", "R">>

\* The message "ERR 5".
MsgUpper == <<"E", "R", "R", " ", "5">>

RegistrationKeyword ==
    \/ \E callback \in {"A", "B"}, case_sensitive \in BOOLEAN :
           on_keyword(KwUpper, callback, case_sensitive)
    \/ on_keyword(KwBad, "B", FALSE)
    \/ on_level(INFO, "G")
    \/ on_any("G")
    \/ \E keyword \in {KwUpper, KwBad}, callback \in {"A", "B", "None"} :
           off_keyword(keyword, callback)
    \/ clear_callbacks

NextKeyword ==
    \/ AllIdle /\ RegistrationKeyword
    \/ \E message \in {MsgError, MsgUpper} : Log("t1", "svc.error", INFO, message)
    \/ Walk("t1")

SpecKeyword ==
    InitDispatch /\ [][NextKeyword]_vars

\* ------------------------------------------------ clear_callbacks in detail
\* The listener of SpecDispatch after on_any(G).on_level(LogLevel.ERROR, A)
\* .on_keyword("err", B); from there callbacks are registered and all of
\* them cleared, never removed one by one, and records are logged in between.

InitClear ==
    /\ logger_handlers = [n \in Loggers |-> IF n = "svc" THEN <<1>> ELSE <<2, 3, 11>>]
    /\ logger_propagate = [n \in Loggers |-> n = "svc"]
    /\ InitThreads("idle")
    /\ _watched_loggers = {"svc.error"}
    /\ _handlers = [n \in {"svc.error"} |-> 11]
    /\ _intercept_settings = [n \in {"svc.error"} |-> FALSE]
    /\ _original_handlers = EmptyMap
    /\ _original_propagate = EmptyMap
    /\ _running = TRUE
    /\ _callback_lock = NoOwner
    /\ InitRegistered
    /\ hist = <<"other", "start">>
    /\ snap = [valid |-> TRUE,
               lh |-> [n \in Loggers |-> IF n = "svc" THEN <<1>> ELSE <<2, 3>>],
               lp |-> logger_propagate, intercepted |-> {}, shadowed |-> {"svc.error"}]
    /\ Constructed

RegistrationClear ==
    \/ \E level \in LogLevel, callback \in Callbacks : on_level(level, callback)
    \/ \E callback \in Callbacks : on_any(callback)
    \/ \E keyword \in Keywords : on_keyword(keyword, "B", FALSE)
    \/ clear_callbacks

NextClear ==
    \/ AllIdle /\ RegistrationClear
    \/ \E level \in LogLevel : Log("t1", "svc.error", level, MsgError)
    \/ Walk("t1")

SpecClear ==
    InitClear /\ [][NextClear]_vars

\* ------------------------------------------- start and stop, two threads
\* Two threads call start() or stop(), one call each, on a listener that is
\* stopped or running with some watch set.  start() and stop() take no
\* lock: a thread can be preempted between the test of _running, each test
\* of the loop, each _attach_handler or _detach_handler call and the
\* assignment of _running.  Each _attach_handler and _detach_handler call
\* is one step here; the interleavings inside them come on top.

\* The orders in which a loop can visit the names of a set.
Orders(names) ==
    {o \in [1..Cardinality(names) -> names] : Range(o) = names}

\* What start() and stop() leave alone.
LifecycleFrame ==
    UNCHANGED <<_watched_loggers, _intercept_settings, registries, _callback_lock,
                class_state, record, current, idx, kidx, self, result, calls,
                received, raised, ndispatch, order, hist, snap>>

\* start(): if self._running: return self; else enter the loop over
\* self._watched_loggers.
StartCall(t) ==
    /\ pc[t] = "idle"
    /\ IF StartReturnsEarly
       THEN /\ pc' = [pc EXCEPT ![t] = "returned"]
            /\ UNCHANGED todo
       ELSE \E o \in Orders(_watched_loggers) :
                /\ pc' = [pc EXCEPT ![t] = "start_loop"]
                /\ todo' = [todo EXCEPT ![t] = o]
    /\ UNCHANGED <<backend, _handlers, _original_handlers, _original_propagate,
                   _running>>
    /\ LifecycleFrame

\* for logger_name in ...: if logger_name not in self._handlers
StartTest(t) ==
    /\ pc[t] = "start_loop"
    /\ IF todo[t] = <<>>
       THEN /\ pc' = [pc EXCEPT ![t] = "start_flag"]
            /\ UNCHANGED todo
       ELSE IF Head(todo[t]) \notin DOMAIN _handlers
            THEN /\ pc' = [pc EXCEPT ![t] = "start_attach"]
                 /\ UNCHANGED todo
            ELSE /\ todo' = [todo EXCEPT ![t] = Tail(todo[t])]
                 /\ UNCHANGED pc
    /\ UNCHANGED <<backend, _handlers, _original_handlers, _original_propagate,
                   _running>>
    /\ LifecycleFrame

\* self._attach_handler(logger_name)
StartAttach(t) ==
    /\ pc[t] = "start_attach"
    /\ Store(_attach_handler(AttachState, _intercept_settings, Head(todo[t])))
    /\ todo' = [todo EXCEPT ![t] = Tail(todo[t])]
    /\ pc' = [pc EXCEPT ![t] = "start_loop"]
    /\ UNCHANGED _running
    /\ LifecycleFrame

\* self._running = True; return self
StartFlag(t) ==
    /\ pc[t] = "start_flag"
    /\ _running' = TRUE
    /\ pc' = [pc EXCEPT ![t] = "returned"]
    /\ UNCHANGED <<backend, _handlers, _original_handlers, _original_propagate, todo>>
    /\ LifecycleFrame

\* stop(): if not self._running: return self; else enter the loop over
\* list(self._handlers.keys()).  The handler map of the model does not keep
\* the insertion order of the dict; every order is offered.
StopCall(t) ==
    /\ pc[t] = "idle"
    /\ IF StopReturnsEarly
       THEN /\ pc' = [pc EXCEPT ![t] = "returned"]
            /\ UNCHANGED todo
       ELSE \E o \in Orders(DOMAIN _handlers) :
                /\ pc' = [pc EXCEPT ![t] = "stop_loop"]
                /\ todo' = [todo EXCEPT ![t] = o]
    /\ UNCHANGED <<backend, _handlers, _original_handlers, _original_propagate,
                   _running>>
    /\ LifecycleFrame

\* self._detach_handler(logger_name), for each name of the list
StopDetach(t) ==
    /\ pc[t] = "stop_loop"
    /\ todo[t] # <<>>
    /\ Store(_detach_handler(AttachState, Head(todo[t])))
    /\ todo' = [todo EXCEPT ![t] = Tail(todo[t])]
    /\ UNCHANGED <<pc, _running>>
    /\ LifecycleFrame

\* self._handlers.clear(); self._running = False; return self
StopFlag(t) ==
    /\ pc[t] = "stop_loop"
    /\ todo[t] = <<>>
    /\ _handlers' = EmptyMap
    /\ _running' = FALSE
    /\ pc' = [pc EXCEPT ![t] = "returned"]
    /\ UNCHANGED <<backend, _original_handlers, _original_propagate, todo>>
    /\ LifecycleFrame

\* A listener with a watch set, stopped, or running after a start() that
\* no other call disturbed.
InitLifecycle ==
    /\ InitThreads("idle")
    /\ \E W \in SUBSET Loggers \ {{}} :
           \E settings \in [W -> BOOLEAN], lp \in [Loggers -> BOOLEAN], r \in BOOLEAN :
               LET clean == [lh |-> [n \in Loggers |->
                                        IF n = "svc" THEN <<1>> ELSE <<2, 3>>],
                             lp |-> lp, hd |-> EmptyMap, oh |-> EmptyMap,
                             op |-> EmptyMap]
                   S == IF r THEN AttachAll(clean, settings, W) ELSE clean
               IN  /\ _watched_loggers = W
                   /\ _intercept_settings = settings
                   /\ _running = r
                   /\ logger_handlers = S.lh
                   /\ logger_propagate = S.lp
                   /\ _handlers = S.hd
                   /\ _original_handlers = S.oh
                   /\ _original_propagate = S.op
    /\ _callback_lock = NoOwner
    /\ InitRegistered
    /\ InitHistory
    /\ Constructed

NextLifecycle ==
    \E t \in Threads :
        \/ StartCall(t)
        \/ StartTest(t)
        \/ StartAttach(t)
        \/ StartFlag(t)
        \/ StopCall(t)
        \/ StopDetach(t)
        \/ StopFlag(t)

SpecLifecycle ==
    InitLifecycle /\ [][NextLifecycle]_vars

\* ------------------------------------- callbacks that log: the forwarder
\* The listener of SpecDispatch with callbacks made by create_log_forwarder
\* registered through on_any, and two threads that log on the watched
\* logger.  _callback_lock is a threading.Lock: it has no owner and a
\* thread that holds it waits like any other when it reaches the with
\* statement again.

\* create_log_forwarder(logging.getLogger(name)) for the two loggers: the
\* callbacks and the target logger of each.
Target ==
    [cb \in {"Fs", "Fe"} |-> IF cb = "Fs" THEN "svc" ELSE "svc.error"]

Forwarders ==
    DOMAIN Target

\* A global callback that is no forwarder is called.
DispatchPlain(t) ==
    /\ pc[t] = "global"
    /\ _global_callbacks[idx[t]] \notin Forwarders
    /\ DispatchGlobal(t)

\* A forwarder is called by the loop over the global callbacks: its body is
\* target_logger.log(record.level, record.message).  When the walk over the
\* target's handlers meets no CallbackHandler the sinks receive the record,
\* the forwarder returns and the loop goes on; otherwise the thread starts
\* that walk inside the callback, still holding _callback_lock.
CallForwarder(t) ==
    /\ pc[t] = "global"
    /\ _global_callbacks[idx[t]] \in Forwarders
    /\ LET callback == _global_callbacks[idx[t]]
           hs == CallHandlers(logger_handlers, logger_propagate, Target[callback],
                              record[t].level)
       IN  /\ calls' = [calls EXCEPT ![t] = Append(@, callback)]
           /\ IF \A i \in DOMAIN hs : ~IsCallbackHandler(hs[i])
              THEN /\ received' = [received EXCEPT ![t] = @ \o hs]
                   /\ LET p == Position(record[t].level, pc[t], kidx[t], idx[t] + 1)
                      IN  /\ pc' = [pc EXCEPT ![t] = p.pc]
                          /\ idx' = [idx EXCEPT ![t] = p.idx]
                          /\ kidx' = [kidx EXCEPT ![t] = p.kidx]
                   /\ UNCHANGED <<todo, record>>
              ELSE /\ pc' = [pc EXCEPT ![t] = "callHandlers"]
                   /\ todo' = [todo EXCEPT ![t] = hs]
                   /\ record' = [record EXCEPT ![t].name = Target[callback]]
                   /\ UNCHANGED <<received, idx, kidx>>
    /\ UNCHANGED <<backend, attach_state, registries, _callback_lock, class_state,
                   current, self, result, raised, ndispatch, order, hist, snap>>

RegistrationForwarder ==
    \/ \E callback \in {"G"} \cup Forwarders : on_any(callback)
    \/ clear_callbacks

\* The steps of thread t that need no lock.
StepsForwarder(t) ==
    \/ Log(t, "svc.error", ERROR, MsgError)
    \/ Handle(t)
    \/ DispatchPlain(t)
    \/ CallForwarder(t)
    \/ DispatchRelease(t)
    \/ Return(t)

NextForwarder ==
    \/ AllIdle /\ RegistrationForwarder
    \/ \E t \in Threads : StepsForwarder(t) \/ DispatchAcquire(t)

\* Every thread that can take a step takes one, and a thread that waits
\* for the lock gets it when the lock is free again and again.
SpecForwarder ==
    /\ InitDispatch
    /\ [][NextForwarder]_vars
    /\ \A t \in Threads : WF_vars(StepsForwarder(t)) /\ SF_vars(DispatchAcquire(t))

\* --------------------------------- failures inside a shadowed log call
\* "svc.error" is watched in shadow mode, propagates to its parent "svc",
\* which is not watched, and the listener is running.  The raising callback
\* A and the keywords "err" and "(" are registered and cleared, and records
\* are logged on "svc.error" in between.

InitFailure ==
    /\ logger_handlers = [n \in Loggers |-> IF n = "svc" THEN <<1>> ELSE <<2, 3, 11>>]
    /\ logger_propagate = [n \in Loggers |-> TRUE]
    /\ InitThreads("idle")
    /\ _watched_loggers = {"svc.error"}
    /\ _handlers = [n \in {"svc.error"} |-> 11]
    /\ _intercept_settings = [n \in {"svc.error"} |-> FALSE]
    /\ _original_handlers = EmptyMap
    /\ _original_propagate = EmptyMap
    /\ _running = TRUE
    /\ _callback_lock = NoOwner
    /\ _level_callbacks = EmptyMap
    /\ _keyword_callbacks = <<>>
    /\ _global_callbacks = <<>>
    /\ hist = <<"other", "start">>
    /\ snap = [valid |-> TRUE,
               lh |-> [n \in Loggers |-> IF n = "svc" THEN <<1>> ELSE <<2, 3>>],
               lp |-> logger_propagate, intercepted |-> {}, shadowed |-> {"svc.error"}]
    /\ Constructed

RegistrationFailure ==
    \/ \E callback \in {"A", "B"} : on_any(callback)
    \/ \E callback \in {"A", "B"} : on_level(ERROR, callback)
    \/ \E keyword \in Keywords : on_keyword(keyword, "B", FALSE)
    \/ clear_callbacks

NextFailure ==
    \/ AllIdle /\ RegistrationFailure
    \/ \E level \in LogLevel, message \in Messages :
           Log("t1", "svc.error", level, message)
    \/ Walk("t1")

SpecFailure ==
    InitFailure /\ [][NextFailure]_vars

\* ------------------------------- registration while a record is dispatched
\* The listener of SpecDispatch; thread t1 logs on the watched logger while
\* thread t2 calls on_level(LogLevel.ERROR, A), on_keyword("err", B),
\* on_any(G) and clear_callbacks(), statement by statement.

\* The positions of a thread inside the with block of a registration call.
RegLabels ==
    {"on_level", "on_level_append", "on_keyword", "on_keyword_append", "on_any",
     "clear", "clear_keyword", "clear_global", "unlock"}

\* What the statements of a registration call leave alone.
StatementFrame ==
    UNCHANGED <<backend, attach_state, class_state, record, todo, current, idx,
                kidx, self, result, calls, received, raised, ndispatch, order,
                hist, snap>>

\* with self._callback_lock: of on_level, on_keyword, on_any (offered while
\* fewer than MaxReg registrations are held) and of clear_callbacks
CallAcquire(t, method) ==
    /\ pc[t] = "idle"
    /\ method = "clear" \/ RegCount < MaxReg
    /\ CanAcquire(_callback_lock, t)
    /\ _callback_lock' = t
    /\ pc' = [pc EXCEPT ![t] = method]
    /\ UNCHANGED registries
    /\ StatementFrame

\* if level.value not in self._level_callbacks:
\*     self._level_callbacks[level.value] = []
OnLevelKey(t) ==
    /\ pc[t] = "on_level"
    /\ _level_callbacks' =
           IF ERROR \notin DOMAIN _level_callbacks
           THEN Put(_level_callbacks, ERROR, <<>>)
           ELSE _level_callbacks
    /\ pc' = [pc EXCEPT ![t] = "on_level_append"]
    /\ UNCHANGED <<_keyword_callbacks, _global_callbacks, _callback_lock>>
    /\ StatementFrame

\* self._level_callbacks[level.value].append(callback)
OnLevelAppend(t) ==
    /\ pc[t] = "on_level_append"
    /\ _level_callbacks' = [_level_callbacks EXCEPT ![ERROR] = Append(@, "A")]
    /\ pc' = [pc EXCEPT ![t] = "unlock"]
    /\ UNCHANGED <<_keyword_callbacks, _global_callbacks, _callback_lock>>
    /\ StatementFrame

\* if keyword not in self._keyword_callbacks:
\*     self._keyword_callbacks[keyword] = []
OnKeywordKey(t) ==
    /\ pc[t] = "on_keyword"
    /\ _keyword_callbacks' =
           IF KeyIndex(KwErr) = 0
           THEN Append(_keyword_callbacks, [keyword |-> KwErr, callbacks |-> <<>>])
           ELSE _keyword_callbacks
    /\ pc' = [pc EXCEPT ![t] = "on_keyword_append"]
    /\ UNCHANGED <<_level_callbacks, _global_callbacks, _callback_lock>>
    /\ StatementFrame

\* self._keyword_callbacks[keyword].append((callback, case_sensitive))
OnKeywordAppend(t) ==
    /\ pc[t] = "on_keyword_append"
    /\ _keyword_callbacks' =
           [_keyword_callbacks EXCEPT
               ![KeyIndex(KwErr)].callbacks = Append(@, <<"B", FALSE>>)]
    /\ pc' = [pc EXCEPT ![t] = "unlock"]
    /\ UNCHANGED <<_level_callbacks, _global_callbacks, _callback_lock>>
    /\ StatementFrame

\* self._global_callbacks.append(callback)
OnAnyAppend(t) ==
    /\ pc[t] = "on_any"
    /\ _global_callbacks' = Append(_global_callbacks, "G")
    /\ pc' = [pc EXCEPT ![t] = "unlock"]
    /\ UNCHANGED <<_level_callbacks, _keyword_callbacks, _callback_lock>>
    /\ StatementFrame

\* self._level_callbacks.clear()
ClearLevel(t) ==
    /\ pc[t] = "clear"
    /\ _level_callbacks' = EmptyMap
    /\ pc' = [pc EXCEPT ![t] = "clear_keyword"]
    /\ UNCHANGED <<_keyword_callbacks, _global_callbacks, _callback_lock>>
    /\ StatementFrame

\* self._keyword_callbacks.clear()
ClearKeyword(t) ==
    /\ pc[t] = "clear_keyword"
    /\ _keyword_callbacks' = <<>>
    /\ pc' = [pc EXCEPT ![t] = "clear_global"]
    /\ UNCHANGED <<_level_callbacks, _global_callbacks, _callback_lock>>
    /\ StatementFrame

\* self._global_callbacks.clear()
ClearGlobal(t) ==
    /\ pc[t] = "clear_global"
    /\ _global_callbacks' = <<>>
    /\ pc' = [pc EXCEPT ![t] = "unlock"]
    /\ UNCHANGED <<_level_callbacks, _keyword_callbacks, _callback_lock>>
    /\ StatementFrame

\* The end of the with block of a registration call; the call returns.
Unlock(t) ==
    /\ pc[t] = "unlock"
    /\ _callback_lock' = NoOwner
    /\ pc' = [pc EXCEPT ![t] = "idle"]
    /\ UNCHANGED registries
    /\ StatementFrame

NextLocked ==
    \/ \E level \in LogLevel : Log("t1", "svc.error", level, MsgError)
    \/ Walk("t1")
    \/ \E method \in {"on_level", "on_keyword", "on_any", "clear"} :
           CallAcquire("t2", method)
    \/ OnLevelKey("t2")
    \/ OnLevelAppend("t2")
    \/ OnKeywordKey("t2")
    \/ OnKeywordAppend("t2")
    \/ OnAnyAppend("t2")
    \/ ClearLevel("t2")
    \/ ClearKeyword("t2")
    \/ ClearGlobal("t2")
    \/ Unlock("t2")

SpecLocked ==
    InitDispatch /\ [][NextLocked]_vars

\* ------------------------------- configuration and registration together
\* One caller makes watch, unwatch, start and stop calls and registration
\* calls in any order, starting from a new listener, and ERROR records are
\* logged in between.  Both loggers propagate.

InitBoth ==
    /\ logger_handlers = [n \in Loggers |-> IF n = "svc" THEN <<1>> ELSE <<2, 3>>]
    /\ logger_propagate = [n \in Loggers |-> TRUE]
    /\ InitThreads("idle")
    /\ InitFields
    /\ InitHistory
    /\ Constructed

RegistrationBoth ==
    \/ on_level(ERROR, "A")
    \/ on_keyword(KwErr, "B", FALSE)
    \/ on_any("G")
    \/ off_level(ERROR, "None")
    \/ off_keyword(KwErr, "B")
    \/ off_any("G")
    \/ clear_callbacks

NextBoth ==
    \/ \E name \in Loggers, intercept \in BOOLEAN : AllIdle /\ watch(name, intercept)
    \/ \E name \in Loggers : AllIdle /\ unwatch(name)
    \/ AllIdle /\ start
    \/ AllIdle /\ stop
    \/ AllIdle /\ RegistrationBoth
    \/ \E name \in Loggers : Log("t1", name, ERROR, MsgError)
    \/ Walk("t1")

SpecBoth ==
    InitBoth /\ [][NextBoth]_vars

\* ============================================================ properties

\* The positions of the callback handlers in a logger's handler list.
CapturingSinks(hs) ==
    {i \in DOMAIN hs : IsCallbackHandler(hs[i])}

\* The number of times thread t occurs in a sequence of threads.
Occurrences(seq, t) ==
    Cardinality({i \in DOMAIN seq : seq[i] = t})

\* s is an initial part of t.
IsPrefix(s, t) ==
    Len(s) <= Len(t) /\ \A i \in DOMAIN s : s[i] = t[i]

\* A (callback, case_sensitive) pair under `keyword` matches `message`.
PairMatches(keyword, case_sensitive, message) ==
    LET pattern == IF case_sensitive THEN keyword ELSE Lower(keyword)
        text == IF case_sensitive THEN message ELSE Lower(message)
    IN  ~ReError(pattern) /\ ReSearch(pattern, text)

\* The callbacks of the matching pairs of one keyword, in registration order.
RECURSIVE PairCalls(_, _, _)
PairCalls(keyword, pairs, message) ==
    IF pairs = <<>>
    THEN <<>>
    ELSE (IF PairMatches(keyword, Head(pairs)[2], message)
          THEN <<Head(pairs)[1]>>
          ELSE <<>>) \o PairCalls(keyword, Tail(pairs), message)

\* The callbacks of the matching pairs, keyword keys in registration order.
RECURSIVE KeywordCalls(_, _)
KeywordCalls(entries, message) ==
    IF entries = <<>>
    THEN <<>>
    ELSE PairCalls(Head(entries).keyword, Head(entries).callbacks, message)
         \o KeywordCalls(Tail(entries), message)

\* The dispatch order the specification states for a record: the global
\* callbacks, then those of the record's level, then the matching keyword
\* callbacks.
ExpectedCalls(r) ==
    _global_callbacks
    \o Get(_level_callbacks, r.level, <<>>)
    \o KeywordCalls(_keyword_callbacks, r.message)

\* The log call of thread t on logger n has returned (or raised).
Logged(t, n) ==
    pc[t] = "done" /\ record[t].name = n

\* ---------------------------------------------------------------- Spec

\* C1: for a logger watched with intercept=True, after a start() that
\* attached and the stop() that follows, the logger's handler list (same
\* handlers, same order) and its propagate flag are what they were before
\* that start().
C1_InterceptRoundTrip ==
    (hist = <<"start", "stop">> /\ snap.valid) =>
        \A n \in snap.intercepted :
            /\ logger_handlers[n] = snap.lh[n]
            /\ logger_propagate[n] = snap.lp[n]

\* start() intercepted "svc.error", which had two handlers and propagated,
\* and stop() has put both back.
C1_Witness ==
    /\ hist = <<"start", "stop">>
    /\ snap.valid
    /\ "svc.error" \in snap.intercepted
    /\ snap.lh["svc.error"] = <<2, 3>>
    /\ snap.lp["svc.error"]
    /\ logger_handlers["svc.error"] = <<2, 3>>
    /\ logger_propagate["svc.error"]
    /\ ~_running

\* C2: for a logger watched with intercept=False, after start(), the
\* propagate flag is what it was before start(), and every record logged on
\* the logger reaches all the handlers the logger had before start() and the
\* listener's CallbackHandler as well.
C2_ShadowPreservesOutput ==
    \A n \in Loggers :
        (_running /\ snap.valid /\ n \in snap.shadowed) =>
            /\ logger_propagate[n] = snap.lp[n]
            /\ Logged("t1", n) =>
                  /\ Range(snap.lh[n]) \subseteq Range(received["t1"])
                  /\ ndispatch["t1"] >= 1

\* A record below DEBUG was logged on the shadowed "svc.error": its two
\* handlers wrote it, the CallbackHandler never dispatched it.
C2_Missed ==
    /\ _running
    /\ snap.valid
    /\ "svc.error" \in snap.shadowed
    /\ Logged("t1", "svc.error")
    /\ record["t1"].level < DEBUG
    /\ received["t1"] = <<2, 3>>
    /\ ndispatch["t1"] = 0

\* C3: a start() that directly follows a start() changes no logger and no
\* field of the listener and leaves exactly one CallbackHandler on every
\* watched logger; a stop() that directly follows a stop() changes no logger
\* and no field of the listener.
C3_IdempotentStartStop ==
    [][ /\ (hist[2] = "start" /\ hist' = <<"start", "start">>) =>
              /\ UNCHANGED <<backend, attach_state, registries>>
              /\ \A n \in _watched_loggers' :
                     Cardinality(CapturingSinks(logger_handlers'[n])) = 1
        /\ (hist[2] = "stop" /\ hist' = <<"stop", "stop">>) =>
              UNCHANGED <<backend, attach_state, registries>>
      ]_vars

\* start() was called twice in a row with both loggers watched, one of them
\* intercepted, and each carries one CallbackHandler.
C3_Witness ==
    /\ hist = <<"start", "start">>
    /\ _running
    /\ _watched_loggers = Loggers
    /\ \E n \in Loggers : InterceptEnabled(_intercept_settings, n)
    /\ \A n \in Loggers : Cardinality(CapturingSinks(logger_handlers[n])) = 1

\* C7: while the listener runs, a record logged on a logger that start()
\* intercepted is delivered to the matching callbacks and to no handler that
\* is not the listener's; a record logged on it after stop() reaches the
\* handlers the logger had before start() and no callback.
C7_InterceptWindow ==
    \A n \in Loggers :
        (snap.valid /\ n \in snap.intercepted /\ Logged("t1", n)) =>
            /\ _running =>
                  /\ calls["t1"] = ExpectedCalls(record["t1"])
                  /\ received["t1"] = <<>>
            /\ ~_running =>
                  /\ Range(snap.lh[n]) \subseteq Range(received["t1"])
                  /\ ndispatch["t1"] = 0

\* A record below DEBUG was logged on the intercepted "svc.error" while the
\* listener ran: no callback was called although G is registered for every
\* record, and no handler wrote it.
C7_Lost ==
    /\ _running
    /\ snap.valid
    /\ "svc.error" \in snap.intercepted
    /\ Logged("t1", "svc.error")
    /\ record["t1"].level < DEBUG
    /\ ExpectedCalls(record["t1"]) # <<>>
    /\ calls["t1"] = <<>>
    /\ received["t1"] = <<>>

\* -------------------------------------------------------- SpecDispatch

\* C4: the callbacks called for one captured record are the global callbacks
\* in registration order, then the callbacks of the record's level in
\* registration order, then the callbacks of the matching keyword pairs in
\* registration order, each once per registration: while the dispatch runs
\* the calls made so far are an initial part of that sequence, and when the
\* log call is over they are the whole of it.
C4_DispatchOrdering ==
    \A t \in Threads :
        /\ InEmit(t) => IsPrefix(calls[t], ExpectedCalls(record[t]))
        /\ (pc[t] = "done" /\ ndispatch[t] > 0) =>
              calls[t] = ExpectedCalls(record[t])

\* The keyword "(" was registered before the keyword "err" of B: the record
\* "an error occurred" matches "err", the dispatch ended in re.error at "("
\* and B was not called.
C4_Skipped ==
    /\ Len(_keyword_callbacks) = 2
    /\ _keyword_callbacks[1].keyword = KwBad
    /\ _keyword_callbacks[2] = [keyword |-> KwErr, callbacks |-> <<<<"B", FALSE>>>>]
    /\ pc["t1"] = "done"
    /\ record["t1"].message = MsgError
    /\ ndispatch["t1"] = 1
    /\ ExpectedCalls(record["t1"]) = <<"B">>
    /\ calls["t1"] = <<>>

\* C5: when a callback raised while a record was dispatched, every callback
\* later in the dispatch order was still called and no exception left the
\* dispatch.
C5_CallbackIsolation ==
    \A t \in Threads :
        (pc[t] = "done" /\ \E i \in DOMAIN calls[t] : calls[t][i] \in Raising) =>
            /\ raised[t] = "none"
            /\ calls[t] = ExpectedCalls(record[t])

\* The raising callback A was called as a global callback, the keyword "("
\* is registered, and re.error left the dispatch.
C5_Escaped ==
    /\ _global_callbacks = <<"A">>
    /\ \E i \in DOMAIN _keyword_callbacks : _keyword_callbacks[i].keyword = KwBad
    /\ pc["t1"] = "done"
    /\ calls["t1"] = <<"A">>
    /\ raised["t1"] = "re.error"

\* C6: whatever was registered through on_level, on_keyword and on_any and
\* whatever record is logged, no exception leaves CallbackHandler.emit and
\* reaches the log call.
C6_NothingPropagates ==
    \A t \in Threads : raised[t] = "none"

\* on_keyword accepted "(", and a record logged afterwards made re.search
\* raise re.error in the log call.
C6_ReError ==
    /\ \E i \in DOMAIN _keyword_callbacks : _keyword_callbacks[i].keyword = KwBad
    /\ pc["t1"] = "done"
    /\ raised["t1"] = "re.error"

\* ------------------------------------------------------------ SpecCtor

\* C8: with two threads constructing LogListener for the first time, one
\* object is created and every constructor call returns it.
C8_Singleton ==
    /\ created <= 1
    /\ \A t \in Threads :
           pc[t] \in {"idle", "failed"} =>
               /\ raised[t] = "none"
               /\ result[t] = _instance

\* A constructor call ended with AttributeError: it read _initialized of the
\* object between lines 128 and 129 of the other thread's __new__.
C8_AttributeError ==
    \E t \in Threads : pc[t] = "failed" /\ raised[t] = "AttributeError"

\* C9: the body of __init__ is entered at most once, and no step takes back
\* a watch entry, a global callback or the running flag.
C9_InitOnce ==
    [][ /\ init_runs' <= 1
        /\ _watched_loggers \subseteq _watched_loggers'
        /\ IsPrefix(_global_callbacks, _global_callbacks')
        /\ _running => _running'
      ]_vars

\* Both threads entered the body of __init__, and the listener that one of
\* them had started is stopped again with its watch set empty.
C9_Reset ==
    /\ init_runs = 2
    /\ hist[2] = "start"
    /\ ~_running
    /\ _watched_loggers = {}

\* ------------------------------------------------------ SpecConcurrent

\* C10: when two threads log records concurrently, the callback calls made
\* for one record all come before or all come after those made for the
\* other: in the order of the calls each thread's calls form one block.
C10_DispatchSerialization ==
    \A t \in Threads : Occurrences(order, t) <= 1

\* A record of t1 on "svc.error" was dispatched by the CallbackHandler of
\* "svc.error" and again by the one of "svc", and t2's record was dispatched
\* in between.
C10_Interleaved ==
    /\ order = <<"t1", "t2", "t1">>
    /\ record["t1"].name = "svc.error"
    /\ ndispatch["t1"] = 2
    /\ ndispatch["t2"] = 1

OriginalHandlers ==
    [n \in Loggers |-> IF n = "svc" THEN <<1>> ELSE <<2, 3>>]

\* C12: unwatch(name) takes name out of the watch set; an attached name is
\* detached (no CallbackHandler left on it, nothing saved for it, the saved
\* handlers and flag of an intercepted logger put back) and every other
\* logger is left alone; for a name that is not watched nothing changes at
\* all.  A logger that is not attached has the handlers and the propagate
\* flag it had before the first call.
C12_Unwatch ==
    /\ [][ \A n \in Loggers :
               unwatch(n) =>
                   /\ n \notin _watched_loggers'
                   /\ n \notin DOMAIN _intercept_settings'
                   /\ n \notin DOMAIN _handlers'
                   /\ n \notin DOMAIN _original_handlers'
                   /\ n \notin DOMAIN _original_propagate'
                   /\ CapturingSinks(logger_handlers'[n]) = {}
                   /\ n \in DOMAIN _original_handlers =>
                          /\ logger_handlers'[n] = _original_handlers[n]
                          /\ logger_propagate'[n] = _original_propagate[n]
                   /\ \A m \in Loggers \ {n} :
                          /\ logger_handlers'[m] = logger_handlers[m]
                          /\ logger_propagate'[m] = logger_propagate[m]
                          /\ (m \in _watched_loggers') = (m \in _watched_loggers)
                          /\ Get(_handlers', m, 0) = Get(_handlers, m, 0)
                          /\ Get(_original_handlers', m, <<>>) =
                                 Get(_original_handlers, m, <<>>)
                   /\ UNCHANGED <<_running, registries>>
                   /\ n \notin _watched_loggers =>
                          UNCHANGED <<backend, attach_state, registries>>
         ]_vars
    /\ \A f \in [Loggers -> BOOLEAN] :
           (logger_propagate = f) =>
               [](\A n \in Loggers :
                      n \notin DOMAIN _handlers =>
                          /\ logger_handlers[n] = OriginalHandlers[n]
                          /\ logger_propagate[n] = f[n])

\* On a running listener "svc.error" and then "svc" were attached, and
\* "svc.error" was unwatched: it has its two handlers back and only "svc"
\* is still attached, with the second CallbackHandler.
C12_Witness ==
    /\ hist = <<"other", "other">>
    /\ _running
    /\ _watched_loggers = {"svc"}
    /\ DOMAIN _handlers = {"svc"}
    /\ _handlers["svc"] = 12
    /\ logger_handlers["svc.error"] = <<2, 3>>
    /\ DOMAIN _intercept_settings = {"svc"}

\* seq without the elements equal to x, the others in their order.
RECURSIVE Without(_, _)
Without(seq, x) ==
    IF seq = <<>>
    THEN <<>>
    ELSE (IF Head(seq) = x THEN <<>> ELSE <<Head(seq)>>) \o Without(Tail(seq), x)

\* The log call of thread t is over and its record was dispatched.
Dispatched(t) ==
    pc[t] = "done" /\ ndispatch[t] > 0

\* The callbacks registered for the level of record r.
LevelList(r) ==
    Get(_level_callbacks, r.level, <<>>)

\* The calls made for t's record are the global callbacks, then the
\* callbacks registered for the record's level, then callbacks of matching
\* keyword pairs from the first on.
CallsShape(t) ==
    LET lead == _global_callbacks \o LevelList(record[t])
    IN  /\ IsPrefix(lead, calls[t])
        /\ IsPrefix(SubSeq(calls[t], Len(lead) + 1, Len(calls[t])),
                    KeywordCalls(_keyword_callbacks, record[t].message))

\* The calls made for t's record out of the level registry.
LevelCalls(t) ==
    SubSeq(calls[t], Len(_global_callbacks) + 1,
           Len(_global_callbacks) + Len(LevelList(record[t])))

\* The callbacks of all pairs of the keyword registry.
KeywordCallbackSet ==
    UNION {{_keyword_callbacks[i].callbacks[j][1] :
                j \in DOMAIN _keyword_callbacks[i].callbacks} :
           i \in DOMAIN _keyword_callbacks}

\* C13: off_level(L, A) leaves for L the callbacks other than A in their
\* order and no A, and changes no other level, not the keyword registry and
\* not the global list; a dispatched record is passed to exactly the
\* callbacks registered for its level (after the global ones), so that a
\* level-L record reaches A no more unless A is also a global or keyword
\* callback.
C13_Unregistration ==
    [][ /\ \A L \in LogLevel, A \in Callbacks :
               off_level(L, A) =>
                   /\ Get(_level_callbacks', L, <<>>) =
                          Without(Get(_level_callbacks, L, <<>>), A)
                   /\ DOMAIN _level_callbacks' = DOMAIN _level_callbacks
                   /\ \A M \in DOMAIN _level_callbacks \ {L} :
                          _level_callbacks'[M] = _level_callbacks[M]
                   /\ UNCHANGED <<_keyword_callbacks, _global_callbacks>>
        /\ \A t \in Threads :
               Dispatched(t)' =>
                   /\ CallsShape(t)'
                   /\ LevelCalls(t)' = LevelList(record[t])'
                   /\ \A A \in Callbacks :
                          A \notin (Range(_global_callbacks) \cup KeywordCallbackSet
                                    \cup Range(LevelList(record[t])))' =>
                              A \notin Range(calls[t])'
      ]_vars

\* The list for ERROR was emptied by off_level (its key is still there);
\* an ERROR record was dispatched afterwards and called only the global
\* callback.
C13_Witness ==
    /\ ERROR \in DOMAIN _level_callbacks
    /\ _level_callbacks[ERROR] = <<>>
    /\ _global_callbacks = <<"A">>
    /\ Dispatched("t1")
    /\ record["t1"].level = ERROR
    /\ calls["t1"] = <<"A">>

\* The callbacks registered under a keyword, the empty set when it is no key.
KeywordCallbacks(keyword) ==
    LET i == KeyIndex(keyword)
    IN  IF i = 0
        THEN {}
        ELSE {_keyword_callbacks[i].callbacks[j][1] :
                  j \in DOMAIN _keyword_callbacks[i].callbacks}

\* The three registries.
Registries ==
    <<_level_callbacks, _keyword_callbacks, _global_callbacks>>

\* C14: off_level, off_keyword and off_any called without a callback empty
\* the list of that selector (that level, that keyword, the global list) and
\* change nothing else; called with a level or keyword that is no key, or
\* with a callback that is not registered under the selector, they change
\* none of the three registries.
C14_OffSelector ==
    [][/\ \A level \in LogLevel :
              off_level(level, "None") =>
                  /\ DOMAIN _level_callbacks' = DOMAIN _level_callbacks
                  /\ \A l \in DOMAIN _level_callbacks :
                         _level_callbacks'[l] =
                             IF l = level THEN <<>> ELSE _level_callbacks[l]
                  /\ UNCHANGED <<_keyword_callbacks, _global_callbacks,
                                 backend, attach_state>>
       /\ \A keyword \in Keywords :
              off_keyword(keyword, "None") =>
                  /\ Len(_keyword_callbacks') = Len(_keyword_callbacks)
                  /\ \A i \in DOMAIN _keyword_callbacks :
                         /\ _keyword_callbacks'[i].keyword = _keyword_callbacks[i].keyword
                         /\ _keyword_callbacks'[i].callbacks =
                                IF _keyword_callbacks[i].keyword = keyword
                                THEN <<>>
                                ELSE _keyword_callbacks[i].callbacks
                  /\ UNCHANGED <<_level_callbacks, _global_callbacks,
                                 backend, attach_state>>
       /\ off_any("None") =>
              /\ _global_callbacks' = <<>>
              /\ UNCHANGED <<_level_callbacks, _keyword_callbacks,
                             backend, attach_state>>
       /\ \A level \in LogLevel, callback \in Callbacks \cup {"None"} :
              /\ off_level(level, callback)
              /\ \/ level \notin DOMAIN _level_callbacks
                 \/ /\ callback # "None"
                    /\ callback \notin Range(_level_callbacks[level])
              => UNCHANGED Registries
       /\ \A keyword \in Keywords, callback \in Callbacks \cup {"None"} :
              /\ off_keyword(keyword, callback)
              /\ \/ KeyIndex(keyword) = 0
                 \/ /\ callback # "None"
                    /\ callback \notin KeywordCallbacks(keyword)
              => UNCHANGED Registries
       /\ \A callback \in Callbacks :
              /\ off_any(callback)
              /\ callback \notin Range(_global_callbacks)
              => UNCHANGED Registries
      ]_vars

\* off_keyword without a callback has emptied one keyword's list: its key is
\* still there, and the other keyword and the global list still hold their
\* callbacks.
C14_Witness ==
    /\ Len(_keyword_callbacks) = 2
    /\ _keyword_callbacks[1].callbacks = <<>>
    /\ _keyword_callbacks[2].callbacks # <<>>
    /\ _global_callbacks # <<>>

\* C15: every on_level(L, cb) adds one registration of cb for L and changes
\* no other registration, and a dispatched record is passed to each callback
\* out of the level registry as many times as the callback is registered for
\* the record's level, whatever is registered for the other levels.
C15_Additive ==
    [][ /\ \A level \in LogLevel, callback \in Callbacks :
               on_level(level, callback) =>
                   /\ \A cb \in Callbacks :
                          Occurrences(LevelList([level |-> level])', cb) =
                              Occurrences(LevelList([level |-> level]), cb)
                              + (IF cb = callback THEN 1 ELSE 0)
                   /\ \A l \in LogLevel \ {level} :
                          LevelList([level |-> l])' = LevelList([level |-> l])
                   /\ UNCHANGED <<_keyword_callbacks, _global_callbacks>>
        /\ \A t \in Threads :
               Dispatched(t)' =>
                   /\ IsPrefix(_global_callbacks \o LevelList(record[t]), calls[t])'
                   /\ \A cb \in Callbacks :
                          Occurrences(LevelCalls(t), cb)' =
                              Occurrences(Get(_level_callbacks, record[t].level, <<>>), cb)'
      ]_vars

\* A is registered twice for ERROR and B once for INFO; an ERROR record was
\* dispatched and passed to A twice and not to B.
C15_Witness ==
    /\ Get(_level_callbacks, ERROR, <<>>) = <<"A", "A">>
    /\ Get(_level_callbacks, INFO, <<>>) = <<"B">>
    /\ Dispatched("t1")
    /\ record["t1"].level = ERROR
    /\ calls["t1"] = <<"A", "A">>

\* The calls made for t's record after the global callbacks and the
\* callbacks of the record's level.
KeywordSegment(t) ==
    SubSeq(calls[t], Len(_global_callbacks) + Len(LevelList(record[t])) + 1,
           Len(calls[t]))

\* The (callback, case_sensitive) pairs of keyword entry e that match the
\* message: with case_sensitive the keyword as written is searched in the
\* message as written, without it the lowercased keyword in the lowercased
\* message.
MatchingPairs(e, callback, message) ==
    {j \in DOMAIN e.callbacks :
        /\ e.callbacks[j][1] = callback
        /\ IF e.callbacks[j][2]
           THEN ReSearch(e.keyword, message)
           ELSE ReSearch(Lower(e.keyword), Lower(message))}

\* C16: a dispatched record is passed to a callback out of the keyword
\* registry exactly when the callback is in a pair that matches the record:
\* a case-sensitive pair when the keyword as written occurs in the message
\* as written, a case-insensitive pair when the lowercased keyword occurs in
\* the lowercased message.
C16_CaseSensitivity ==
    \A t \in Threads :
        Dispatched(t) =>
            \A callback \in Callbacks :
                callback \in Range(KeywordSegment(t)) <=>
                    \E i \in DOMAIN _keyword_callbacks :
                        MatchingPairs(_keyword_callbacks[i], callback,
                                      record[t].message) # {}

\* "(" was registered before "ERR"; B is registered under "ERR" without
\* case sensitivity, the record "an error occurred" was dispatched, and B
\* was not called.
C16_NotFired ==
    /\ Len(_keyword_callbacks) = 2
    /\ _keyword_callbacks[1].keyword = KwBad
    /\ _keyword_callbacks[1].callbacks # <<>>
    /\ _keyword_callbacks[2] = [keyword |-> KwUpper, callbacks |-> <<<<"B", FALSE>>>>]
    /\ Dispatched("t1")
    /\ record["t1"].message = MsgError
    /\ "B" \notin Range(calls["t1"])

\* The number of pairs of `callback` in the keyword registry that match the
\* message, each pair judged with its own case_sensitive flag.
RECURSIVE MatchCount(_, _, _)
MatchCount(entries, callback, message) ==
    IF entries = <<>>
    THEN 0
    ELSE Cardinality(MatchingPairs(Head(entries), callback, message))
         + MatchCount(Tail(entries), callback, message)

\* C17: a dispatched record is passed to a callback out of the keyword
\* registry once for each (callback, case_sensitive) pair of the callback
\* that matches the record under the pair's own flag: twice when the same
\* keyword is registered with both flags and the record matches under both,
\* once when it matches only without case sensitivity.
C17_PairsIndependent ==
    \A t \in Threads :
        Dispatched(t) =>
            \A callback \in Callbacks :
                Occurrences(KeywordSegment(t), callback) =
                    MatchCount(_keyword_callbacks, callback, record[t].message)

\* "(" was registered before "ERR"; B is registered under "ERR" with
\* case_sensitive true and with case_sensitive false, the record "ERR 5"
\* matches both pairs, and B was not called.
C17_NotTwice ==
    /\ Len(_keyword_callbacks) = 2
    /\ _keyword_callbacks[1].keyword = KwBad
    /\ _keyword_callbacks[1].callbacks # <<>>
    /\ _keyword_callbacks[2] =
           [keyword |-> KwUpper, callbacks |-> <<<<"B", TRUE>>, <<"B", FALSE>>>>]
    /\ Dispatched("t1")
    /\ record["t1"].message = MsgUpper
    /\ MatchCount(_keyword_callbacks, "B", MsgUpper) = 2
    /\ calls["t1"] = <<>>

\* C18: clear_callbacks leaves the level, keyword and global registries
\* empty whatever they held, and changes no logger, not the watch set, not
\* the attached CallbackHandlers and not the running flag; a record
\* dispatched while nothing is registered is passed to no callback and
\* raises nothing.
C18_ClearCallbacks ==
    [][ /\ clear_callbacks =>
               /\ _level_callbacks' = EmptyMap
               /\ _keyword_callbacks' = <<>>
               /\ _global_callbacks' = <<>>
               /\ UNCHANGED <<logger_handlers, logger_propagate, _watched_loggers,
                              _handlers, _intercept_settings, _original_handlers,
                              _original_propagate, _running>>
        /\ \A t \in Threads :
               (Dispatched(t) /\ RegCount = 0)' =>
                   calls'[t] = <<>> /\ raised'[t] = "none"
      ]_vars

\* clear_callbacks has emptied the registries (which held G, A and B and
\* are never emptied otherwise), and an ERROR record "an error occurred"
\* dispatched afterwards by the attached CallbackHandler called nothing.
C18_Witness ==
    /\ _level_callbacks = EmptyMap
    /\ _keyword_callbacks = <<>>
    /\ _global_callbacks = <<>>
    /\ _running
    /\ "svc.error" \in DOMAIN _handlers
    /\ Dispatched("t1")
    /\ record["t1"].level = ERROR
    /\ record["t1"].message = MsgError
    /\ calls["t1"] = <<>>

\* C19: after any calls of watch, unwatch, start and stop a logger has a
\* saved handler list and a saved propagate flag exactly when its intercept
\* setting is true and a CallbackHandler is attached to it.
C19_InterceptionState ==
    \A n \in Loggers :
        (n \in DOMAIN _original_handlers /\ n \in DOMAIN _original_propagate) <=>
            (InterceptEnabled(_intercept_settings, n) /\ n \in DOMAIN _handlers)

\* "svc" was attached as a shadow and then watched again with
\* intercept=True: its setting is true and its CallbackHandler is attached,
\* nothing was saved, and its original handler still receives the records.
C19_Rewatched ==
    /\ _running
    /\ "svc" \in DOMAIN _handlers
    /\ "svc" \in DOMAIN _intercept_settings
    /\ _intercept_settings["svc"]
    /\ "svc" \notin DOMAIN _original_handlers
    /\ logger_handlers["svc"] = <<1, _handlers["svc"]>>
    /\ logger_propagate["svc"]

\* Every logger is as it was before the first call: the handlers it had, in
\* their order, the propagate flag f gives it, and no CallbackHandler.
AsFound(f) ==
    \A n \in Loggers :
        /\ logger_handlers[n] = OriginalHandlers[n]
        /\ logger_propagate[n] = f[n]
        /\ CapturingSinks(logger_handlers[n]) = {}

\* C20: whatever watch (with either intercept value, also for a name that
\* is attached), unwatch, start and stop calls were made, whenever the
\* listener is stopped every logger has the handler list (same handlers,
\* same order) and the propagate flag it had before the first call, no
\* CallbackHandler is on any logger, and the listener holds no handler and
\* no saved state; a stop() of a running listener ends in such a state.
C20_DetachInverse ==
    /\ [][(stop /\ _running) =>
              /\ ~_running'
              /\ \A n \in Loggers : CapturingSinks(logger_handlers'[n]) = {}
              /\ _handlers' = EmptyMap
          ]_vars
    /\ \A f \in [Loggers -> BOOLEAN] :
           (logger_propagate = f) =>
               [](~_running =>
                      /\ AsFound(f)
                      /\ _handlers = EmptyMap
                      /\ _original_handlers = EmptyMap
                      /\ _original_propagate = EmptyMap)

\* The listener was stopped after a watch call that followed the last
\* start(): both loggers are watched, "svc" with intercept=True and
\* "svc.error" with intercept=False, and both have their own handlers back.
C20_Witness ==
    /\ hist = <<"other", "stop">>
    /\ ~snap.valid
    /\ ~_running
    /\ _watched_loggers = Loggers
    /\ _intercept_settings["svc"]
    /\ ~_intercept_settings["svc.error"]
    /\ \A n \in Loggers : logger_handlers[n] = OriginalHandlers[n]
    /\ _handlers = EmptyMap

\* C21: after any calls of watch, unwatch, start and stop made one after
\* the other: while the listener runs the attached names are the watched
\* names and each of them carries exactly one CallbackHandler, the one the
\* listener holds for it, and no other logger carries one; while it does not
\* run the handler map and the saved state are empty and no logger carries a
\* CallbackHandler.
C21_Attachment ==
    /\ _running =>
           /\ DOMAIN _handlers = _watched_loggers
           /\ \A n \in _watched_loggers :
                  /\ Cardinality(CapturingSinks(logger_handlers[n])) = 1
                  /\ _handlers[n] \in Range(logger_handlers[n])
           /\ \A n \in Loggers \ _watched_loggers :
                  CapturingSinks(logger_handlers[n]) = {}
    /\ ~_running =>
           /\ _handlers = EmptyMap
           /\ _original_handlers = EmptyMap
           /\ _original_propagate = EmptyMap
           /\ \A n \in Loggers : CapturingSinks(logger_handlers[n]) = {}

\* The listener runs; "svc.error" was unwatched and "svc" watched after
\* start(): "svc" alone is watched and attached, with one CallbackHandler.
C21_Witness ==
    /\ _running
    /\ hist = <<"other", "other">>
    /\ _watched_loggers = {"svc"}
    /\ DOMAIN _handlers = {"svc"}
    /\ Cardinality(CapturingSinks(logger_handlers["svc"])) = 1
    /\ CapturingSinks(logger_handlers["svc.error"]) = {}

\* The calls of all threads have returned.
AllReturned ==
    \A t \in Threads : pc[t] = "returned"

\* The CallbackHandlers that are on some logger.
SinksPresent ==
    UNION {{h \in Range(logger_handlers[n]) : IsCallbackHandler(h)} : n \in Loggers}

\* C22: when two threads have called start() or stop() at the same time,
\* whatever the interleaving, each logger carries at most one
\* CallbackHandler, the handler map holds exactly the CallbackHandlers that
\* are on loggers, each on the logger it is recorded for, and no
\* CallbackHandler is among the saved original handlers.
C22_LifecycleExclusive ==
    AllReturned =>
        /\ \A n \in Loggers : Cardinality(CapturingSinks(logger_handlers[n])) <= 1
        /\ Range(_handlers) = SinksPresent
        /\ \A n \in DOMAIN _handlers : _handlers[n] \in Range(logger_handlers[n])
        /\ \A n \in DOMAIN _original_handlers :
               CapturingSinks(_original_handlers[n]) = {}

\* Two start() calls ran at the same time on a stopped listener that
\* watches "svc" with intercept=True: both attached, the second one saved
\* the first one's CallbackHandler as an original handler of "svc".
C22_SavedCapturingSink ==
    /\ AllReturned
    /\ _running
    /\ "svc" \in DOMAIN _original_handlers
    /\ CapturingSinks(_original_handlers["svc"]) # {}

\* C23: every dispatch that a thread enters comes to its end, and the
\* callback lock, once taken, is released again, also when a callback
\* called by the dispatch logs a record on a watched logger.
C23_NonBlocking ==
    /\ \A t \in Threads : (pc[t] = "dispatch") ~> (pc[t] = "done")
    /\ (_callback_lock # NoOwner) ~> (_callback_lock = NoOwner)

\* A thread called the forwarder to "svc.error" inside its dispatch; the
\* forwarded record reached the CallbackHandler of "svc.error", and the
\* thread waits for the callback lock that it holds itself.
C23_SelfDeadlock ==
    \E t \in Threads :
        /\ pc[t] = "dispatch"
        /\ _callback_lock = t
        /\ calls[t] # <<>>
        /\ calls[t][Len(calls[t])] = "Fe"

\* The listener runs and "svc.error" and its parent "svc" are both attached
\* as shadows.
BothShadowed ==
    /\ _running
    /\ DOMAIN _handlers = Loggers
    /\ DOMAIN _original_handlers = {}
    /\ \A n \in Loggers : ~InterceptEnabled(_intercept_settings, n)

\* C24: while the listener runs with a logger and its parent both watched
\* in shadow mode, a record of a LogLevel level logged on the child is
\* dispatched exactly once and each matching registration is called exactly
\* once for it.
C24_ExactlyOnce ==
    \A t \in Threads :
        (/\ BothShadowed
         /\ pc[t] = "done"
         /\ record[t].name = "svc.error"
         /\ record[t].level \in LogLevel) =>
            /\ ndispatch[t] = 1
            /\ calls[t] = ExpectedCalls(record[t])

\* An ERROR record logged on "svc.error" was dispatched by the
\* CallbackHandler of "svc.error" and, through propagation, by the one of
\* "svc": every matching callback was called in each of the two dispatches.
C24_Twice ==
    /\ BothShadowed
    /\ pc["t1"] = "done"
    /\ record["t1"].name = "svc.error"
    /\ record["t1"].level = ERROR
    /\ logger_propagate["svc.error"]
    /\ ndispatch["t1"] = 2
    /\ calls["t1"] = ExpectedCalls(record["t1"])

\* Logger n is attached as a shadow: watched with intercept=False, with a
\* CallbackHandler and nothing saved.
ShadowAttached(n) ==
    /\ _running
    /\ n \in DOMAIN _handlers
    /\ ~InterceptEnabled(_intercept_settings, n)
    /\ n \notin DOMAIN _original_handlers

\* The sinks that a record of `level` logged on n reaches when no listener
\* has touched the loggers (a shadow attach leaves n's propagate flag as it
\* was).
WithoutListener(n, level) ==
    Range(CallHandlers(OriginalHandlers, logger_propagate, n, level))

\* C25: a record logged on a logger that is attached as a shadow reaches
\* the same handlers other than CallbackHandlers (its own and those of the
\* parent it propagates to) as without the listener, whatever else is
\* watched and however.
C25_ShadowUndisturbed ==
    \A t \in Threads :
        (pc[t] = "done" /\ ShadowAttached(record[t].name)) =>
            Range(received[t]) = WithoutListener(record[t].name, record[t].level)

\* "svc.error" is shadowed and propagates, its parent "svc" is intercepted:
\* a record logged on "svc.error" reached the handlers of "svc.error" and
\* not handler 1 of "svc", which start() took off.
C25_ParentSilenced ==
    /\ ShadowAttached("svc.error")
    /\ "svc" \in DOMAIN _original_handlers
    /\ logger_propagate["svc.error"]
    /\ pc["t1"] = "done"
    /\ record["t1"].name = "svc.error"
    /\ received["t1"] = <<2, 3>>
    /\ 1 \in WithoutListener("svc.error", record["t1"].level)

\* Handling t's record inside the listener failed: a callback that was
\* called raised, or re.search raised on a registered keyword.
InternalFailure(t) ==
    \/ \E i \in DOMAIN calls[t] : calls[t][i] \in Raising
    \/ raised[t] = "re.error"

\* C26: when handling a record logged on a shadowed logger failed inside
\* the listener, every handler that was on the logger and on the parent it
\* propagates to before the listener attached has still received the
\* record.
C26_ShadowSurvivesFailure ==
    \A t \in Threads :
        (/\ pc[t] = "done"
         /\ ShadowAttached(record[t].name)
         /\ InternalFailure(t)) =>
            WithoutListener(record[t].name, record[t].level) \subseteq Range(received[t])

\* The keyword "(" is registered; a record logged on the shadowed
\* "svc.error" reached its handlers 2 and 3, re.error left the
\* CallbackHandler, and handler 1 of the parent never received the record.
C26_ParentMissed ==
    /\ ShadowAttached("svc.error")
    /\ "svc" \notin DOMAIN _handlers
    /\ logger_handlers["svc"] = <<1>>
    /\ logger_propagate["svc.error"]
    /\ pc["t1"] = "done"
    /\ record["t1"].name = "svc.error"
    /\ raised["t1"] = "re.error"
    /\ received["t1"] = <<2, 3>>

\* The number of CallbackHandlers that a record logged on n and propagating
\* upwards meets on the ancestors of n.
AncestorSinks(n) ==
    IF logger_propagate[n] /\ Parent(n) # ""
    THEN Cardinality(CapturingSinks(logger_handlers[Parent(n)]))
    ELSE 0

\* C27: while the listener does not run no logger carries a
\* CallbackHandler, and a record logged on any logger is not dispatched and
\* calls no callback; a logger that is not watched (never watched, or
\* unwatched on a running listener) carries no CallbackHandler and the
\* listener holds none for it, so that a record logged on it is dispatched
\* by the CallbackHandlers of its ancestors at most.
C27_NoCaptureWhileStopped ==
    /\ ~_running =>
           /\ \A n \in Loggers : CapturingSinks(logger_handlers[n]) = {}
           /\ \A t \in Threads : ndispatch[t] = 0 /\ calls[t] = <<>>
    /\ \A n \in Loggers \ _watched_loggers :
           /\ CapturingSinks(logger_handlers[n]) = {}
           /\ n \notin DOMAIN _handlers
           /\ \A t \in Threads :
                  (pc[t] # "idle" /\ record[t].name = n) =>
                      ndispatch[t] <= AncestorSinks(n)

\* start() attached "svc.error" and stop() detached it; an ERROR record
\* "an error occurred" logged on it afterwards reached its two handlers and
\* no callback, although G, A and B are registered for such a record.
C27_Witness ==
    /\ ~_running
    /\ hist = <<"start", "stop">>
    /\ snap.valid
    /\ "svc.error" \in snap.shadowed \cup snap.intercepted
    /\ pc["t1"] = "done"
    /\ record["t1"] = [name |-> "svc.error", level |-> ERROR, message |-> MsgError]
    /\ ExpectedCalls(record["t1"]) = <<"G", "A", "B">>
    /\ calls["t1"] = <<>>
    /\ ndispatch["t1"] = 0
    /\ {2, 3} \subseteq Range(received["t1"])

\* The positions of a thread inside the with block of _dispatch_callbacks.
LoopLabels ==
    {"global", "level", "keyword", "release"}

ConfigurationCall ==
    \/ \E name \in Loggers, intercept \in BOOLEAN : watch(name, intercept)
    \/ \E name \in Loggers : unwatch(name)
    \/ start
    \/ stop

\* C29: the registration methods (on_level, on_keyword, on_any, off_level,
\* off_keyword, off_any, clear_callbacks) never change the watch set, the
\* intercept flags, the handler map, the saved handlers and propagate flags,
\* the running flag or any logger; watch, unwatch, start and stop never
\* change a registry; so the callbacks registered before a stop are still
\* registered after it and after the next start, and every record that
\* is dispatched is given to exactly the callbacks the registries hold then.
C29_SeparateDomains ==
    [][ /\ RegistrationBoth => UNCHANGED <<backend, attach_state>>
        /\ registries' # registries => UNCHANGED <<backend, attach_state>>
        /\ ConfigurationCall => UNCHANGED registries
        /\ (backend' # backend \/ attach_state' # attach_state) =>
               UNCHANGED registries
        /\ \A t \in Threads :
               Dispatched(t)' => (calls[t] = ExpectedCalls(record[t]))'
      ]_vars

\* The listener was stopped and started again, its last two configuration
\* calls, and with three callbacks registered a record logged on the
\* attached logger svc.error has been dispatched to all three.
C29_Witness ==
    /\ hist = <<"stop", "start">>
    /\ _running
    /\ "svc.error" \in DOMAIN _handlers
    /\ Logged("t1", "svc.error")
    /\ Dispatched("t1")
    /\ calls["t1"] = <<"G", "A", "B">>

\* C30: the capturing sink accepts all severities: every record logged on
\* an attached logger, whatever its numeric level (the custom levels below
\* DEBUG included), passes the level test of the logger's CallbackHandler,
\* is dispatched at least once and is given to the callbacks registered
\* for it.
C30_AllSeverities ==
    \A t \in Threads :
        \A n \in DOMAIN _handlers :
            Logged(t, n) =>
                /\ record[t].level >= HandlerLevel(_handlers[n])
                /\ ndispatch[t] >= 1
                /\ calls[t] = ExpectedCalls(record[t])

\* A record of level 5 was logged on svc while the CallbackHandler of svc
\* was attached: the handler's level is DEBUG, the record was not
\* dispatched and the global callback registered for every record was
\* not called.
C30_Filtered ==
    /\ _running
    /\ "svc" \in DOMAIN _handlers
    /\ _handlers["svc"] \in Range(logger_handlers["svc"])
    /\ HandlerLevel(_handlers["svc"]) = DEBUG
    /\ Logged("t1", "svc")
    /\ record["t1"].level = 5
    /\ ndispatch["t1"] = 0
    /\ _global_callbacks # <<>>
    /\ calls["t1"] = <<>>

====
